---------------------------- MODULE Spec2Model ----------------------------
(***************************************************************************)
(* A model of curseforge-dl: ModpackInstaller.install and the stages it    *)
(* drives (_resolve_files, _determine_file_targets, _download_files), the  *)
(* CurseForgeAPI client gate, and the URL helper build_cdn_url.            *)
(*                                                                         *)
(* Scheduling is that of one asyncio event loop: a task runs without       *)
(* interruption from one suspension point (a semaphore wait, a network     *)
(* operation, a sleep) to the next, so each action below is one such run.  *)
(* asyncio.gather starts the tasks of a stage in list order, each running  *)
(* to its first suspension before the next one starts; network results     *)
(* are delivered only in later iterations of the loop.                     *)
(***************************************************************************)
EXTENDS Integers, Sequences, FiniteSets, TLC

(***************************************************************************)
(* Bounds of the model.                                                    *)
(***************************************************************************)
\* longest manifest file list
MaxFiles == 2
\* transient network failures (lookups, downloads) injected in one behaviour
MaxFaults == 2
\* the longest manifest that is installed twice
MaxRerunFiles == 2
\* the most bytes of a text that is hashed, before blanks are put into it
MaxLen == 9
\* the most entries of a zip whose layout is explored
MaxEntries == 4
\* the longest manifest whose entries queue on the stage gate
MaxGateFiles == 3
\* the longest manifest of the installs that are followed to their end
MaxLiveFiles == 2

(***************************************************************************)
(* Values.                                                                 *)
(***************************************************************************)
\* Python's None in an Optional[str] field
None == "<None>"

\* no object: a record variable that has no value yet, a file not written
Absent == [absent |-> TRUE]

\* truth value of an Optional[str]: None and "" are falsy
Truthy(s) == s # None /\ s # ""

SECTION_MOD == 6
SECTION_RESOURCE_PACK == 12
SECTION_WORLD == 17
SECTION_SHADER_PACK == 6552

CurseManifestFile(p, f, n, u, r) ==
    [projectID |-> p, fileID |-> f, fileName |-> n, url |-> u, required |-> r]

\* the slot value of `resolved` before resolve_one has stored a result
Unset == [projectID |-> 0, fileID |-> 0, fileName |-> None, url |-> None,
          required |-> FALSE]

(***************************************************************************)
(* url.py                                                                  *)
(***************************************************************************)
\* a variant that leaves the file_id // 1000 segment out
build_cdn_urlDropsShard(file_id, file_name) ==
    "https://edge.forgecdn.net/files/" \o ToString(file_id) \o "/" \o file_name

\* a variant that writes file_id % 1000 with three digits
build_cdn_urlPadded(file_id, file_name) ==
    "https://edge.forgecdn.net/files/" \o ToString(file_id \div 1000) \o "/"
        \o (IF file_id % 1000 < 10 THEN "00"
            ELSE IF file_id % 1000 < 100 THEN "0" ELSE "")
        \o ToString(file_id % 1000) \o "/" \o file_name

build_cdn_url(file_id, file_name) ==
    "https://edge.forgecdn.net/files/" \o ToString(file_id \div 1000) \o "/"
        \o ToString(file_id % 1000) \o "/" \o file_name

\* a variant that falls back only when there is no download_url at all
get_download_urlUnlessNone(addon_file) ==
    IF addon_file.download_url # None THEN addon_file.download_url
    ELSE build_cdn_url(addon_file.id, addon_file.file_name)

\* `if addon_file.download_url: return it`, else the CDN URL
get_download_url(addon_file) ==
    IF Truthy(addon_file.download_url) THEN addon_file.download_url
    ELSE build_cdn_url(addon_file.id, addon_file.file_name)

(***************************************************************************)
(* fingerprint.py. A Python int is held as its base-256 digits, least      *)
(* significant first, so that no width is assumed where the code assumes   *)
(* none; `& mask` is what cuts a value to 32 bits.                         *)
(***************************************************************************)
Max(a, b) == IF a >= b THEN a ELSE b

RECURSIVE Pow2(_)
Pow2(n) == IF n = 0 THEN 1 ELSE 2 * Pow2(n - 1)

\* the int n
RECURSIVE int(_)
int(n) == IF n = 0 THEN <<>> ELSE << n % 256 >> \o int(n \div 256)

\* digit i of x
Limb(x, i) == IF i \in DOMAIN x THEN x[i] ELSE 0

\* an int has no leading zero digit
RECURSIVE Norm(_)
Norm(x) ==
    IF x = <<>> THEN x
    ELSE IF x[Len(x)] # 0 THEN x
    ELSE Norm(SubSeq(x, 1, Len(x) - 1))

RECURSIVE xor8(_, _)
xor8(a, b) ==
    IF a = 0 THEN b
    ELSE IF b = 0 THEN a
    ELSE ((a + b) % 2) + 2 * xor8(a \div 2, b \div 2)

RECURSIVE and8(_, _)
and8(a, b) ==
    IF a = 0 \/ b = 0 THEN 0
    ELSE ((a % 2) * (b % 2)) + 2 * and8(a \div 2, b \div 2)

\* x ^ y
Xor(x, y) == Norm([i \in 1..Max(Len(x), Len(y)) |-> xor8(Limb(x, i), Limb(y, i))])

\* x & y
And(x, y) == Norm([i \in 1..Max(Len(x), Len(y)) |-> and8(Limb(x, i), Limb(y, i))])

\* x >> n
ShiftRight(x, n) ==
    LET q == n \div 8
        s == n % 8
    IN  Norm([i \in 1..Max(Len(x) - q, 0) |->
            (Limb(x, i + q) \div Pow2(s)) + (Limb(x, i + q + 1) % Pow2(s)) * Pow2(8 - s)])

\* x << n
ShiftLeft(x, n) ==
    LET q == n \div 8
        s == n % 8
    IN  Norm([i \in 1..(Len(x) + q + 1) |->
            ((Limb(x, i - q) * Pow2(s)) % 256) + (Limb(x, i - q - 1) \div Pow2(8 - s))])

\* the digits of x * y from digit k on, `carry` coming from the digits below
RECURSIVE MulFrom(_, _, _, _)
MulFrom(x, y, k, carry) ==
    IF k > Len(x) + Len(y) THEN <<>>
    ELSE LET RECURSIVE column(_)
             column(i) == IF i > k THEN 0
                          ELSE Limb(x, i) * Limb(y, k + 1 - i) + column(i + 1)
             sum == column(1) + carry
         IN  << sum % 256 >> \o MulFrom(x, y, k + 1, sum \div 256)

\* x * y
Mul(x, y) == Norm(MulFrom(x, y, 1, 0))

\* a variant that has the vertical tab too
_WHITESPACEWithVerticalTab == {9, 10, 11, 13, 32}

\* `_WHITESPACE = {0x09, 0x0A, 0x0D, 0x20}`
_WHITESPACE == {9, 10, 13, 32}

\* struct.unpack_from("<I", data, i)[0]
unpack_from(data, i) == SubSeq(data, i + 1, i + 4)

\* the `while length >= 4` loop of _murmur_hash2: [h, i, length] when it ends
RECURSIVE while_length(_, _, _, _, _, _, _)
while_length(data, h, i, length, m, r, mask) ==
    IF length >= 4
    THEN LET k1 == unpack_from(data, i)
             k2 == And(Mul(k1, m), mask)
             k3 == Xor(k2, ShiftRight(k2, r))
             k4 == And(Mul(k3, m), mask)
             h1 == And(Mul(h, m), mask)
             h2 == And(Xor(h1, k4), mask)
         IN  while_length(data, h2, i + 4, length - 4, m, r, mask)
    ELSE [h |-> h, i |-> i, length |-> length]

\* a variant whose last multiplication does not depend on a trailing byte
tailAlwaysMultiplies(data, h, i, length, m, mask) ==
    LET h1 == IF length = 3 THEN Xor(h, ShiftLeft(int(data[i + 3]), 16)) ELSE h
        h2 == IF length >= 2 THEN Xor(h1, ShiftLeft(int(data[i + 2]), 8)) ELSE h1
    IN  IF length >= 1
        THEN And(Mul(Xor(h2, int(data[i + 1])), m), mask)
        ELSE And(Mul(h2, m), mask)

\* the three `if length ...` of _murmur_hash2; data[i] is the model's data[i + 1]
tail(data, h, i, length, m, mask) ==
    LET h1 == IF length = 3 THEN Xor(h, ShiftLeft(int(data[i + 3]), 16)) ELSE h
        h2 == IF length >= 2 THEN Xor(h1, ShiftLeft(int(data[i + 2]), 8)) ELSE h1
    IN  IF length >= 1
        THEN And(Mul(Xor(h2, int(data[i + 1])), m), mask)
        ELSE h2

\* a variant without the `& mask`
final_mixUnmasked(h, m, mask) ==
    LET h1 == Xor(h, ShiftRight(h, 13))
        h2 == Mul(h1, m)
    IN  Xor(h2, ShiftRight(h2, 15))

\* the last three statements of _murmur_hash2
final_mix(h, m, mask) ==
    LET h1 == Xor(h, ShiftRight(h, 13))
        h2 == And(Mul(h1, m), mask)
    IN  Xor(h2, ShiftRight(h2, 15))

\* a variant that starts from the length alone
_murmur_hash2SeedIgnored(data, seed) ==
    LET length == Len(data)
        m == << 149, 233, 209, 91 >>
        r == 24
        h == int(length)
        mask == << 255, 255, 255, 255 >>
        at == while_length(data, h, 0, length, m, r, mask)
    IN  final_mix(tail(data, at.h, at.i, at.length, m, mask), m, mask)

_murmur_hash2(data, seed) ==
    LET length == Len(data)
        m == << 149, 233, 209, 91 >>      \* 0x5BD1E995
        r == 24
        h == Xor(seed, int(length))
        mask == << 255, 255, 255, 255 >>  \* 0xFFFFFFFF
        at == while_length(data, h, 0, length, m, r, mask)
    IN  final_mix(tail(data, at.h, at.i, at.length, m, mask), m, mask)

_strip_whitespace(data) == SelectSeq(data, LAMBDA b : b \notin _WHITESPACE)

curseforge_fingerprint_bytes(data) == _murmur_hash2(_strip_whitespace(data), int(1))

(***************************************************************************)
(* The catalog (the remote service behind CurseForgeAPI) as the installer  *)
(* sees it: what GET /v1/mods/{p}/files/{f} and GET /v1/mods/{p} answer.   *)
(* A file the catalog has answers with its own id, the id asked for.       *)
(***************************************************************************)
NotFound == [status |-> 404]

AddonFile(i, n, u) == [status |-> 200, id |-> i, file_name |-> n, download_url |-> u]

CatalogFile(project_id, file_id) ==
    CASE project_id = 1 /\ file_id = 5433036 ->
             AddonFile(5433036, "mod.jar", None)
      [] project_id = 1 /\ file_id = 1234 ->
             AddonFile(1234, "test.jar",
                       "https://mediafilez.forgecdn.net/files/1/234/test.jar")
      [] project_id = 3 /\ file_id = 6001 ->
             AddonFile(6001, "shader.zip", "")
      [] OTHER -> NotFound

CurseAddon(i, c) == [status |-> 200, id |-> i, class_id |-> c]

CatalogMod(project_id) ==
    CASE project_id = 1 -> CurseAddon(1, SECTION_WORLD)
      [] project_id = 2 -> CurseAddon(2, SECTION_RESOURCE_PACK)
      [] project_id = 3 -> CurseAddon(3, SECTION_SHADER_PACK)
      [] OTHER -> NotFound

(***************************************************************************)
(* Inputs: the manifest's file entries and the installer's configuration.  *)
(***************************************************************************)
EntryPool ==
    { CurseManifestFile(1, 5433036, None, None, TRUE),
      CurseManifestFile(1, 1234, None, None, FALSE),
      CurseManifestFile(2, 4000000, None, None, TRUE),
      CurseManifestFile(2, 4000001, "pack.zip", "https://example.com/pack.zip", TRUE),
      CurseManifestFile(3, 6001, "old-shader.zip", None, TRUE) }

\* A zip entry: its name as path segments, whether it is a directory entry
\* (a name ending in "/"), and its content.
ZipInfo(filename, is_dir, content) ==
    [filename |-> filename, is_dir |-> is_dir, content |-> content]

\* the manifest document: CurseManifest's fields
CurseManifest(fs_) ==
    [manifestType |-> "minecraftModpack", manifestVersion |-> 1,
     name |-> "Pack", version |-> "1.0", author |-> "author",
     overrides |-> << "overrides" >>, minecraft |-> "1.21.1", files |-> fs_]

OverrideEntries ==
    << ZipInfo(<< "overrides" >>, TRUE, ""),
       ZipInfo(<< "overrides", "config" >>, TRUE, ""),
       ZipInfo(<< "overrides", "config", "options.txt" >>, FALSE, "options"),
       ZipInfo(<< "overrides", "..", "escaped.txt" >>, FALSE, "escaped"),
       ZipInfo(<< "README.md" >>, FALSE, "readme") >>

\* a modpack zip with the manifest document at its root, and one without
Modpack(fs_) ==
    << ZipInfo(<< "manifest.json" >>, FALSE, CurseManifest(fs_)) >> \o OverrideEntries

NoManifestZip == OverrideEntries

RECURSIVE SeqsUpTo(_, _)
SeqsUpTo(S, n) ==
    IF n = 0 THEN { <<>> }
    ELSE LET shorter == SeqsUpTo(S, n - 1)
         IN  shorter \cup { Append(s, e) : s \in { t \in shorter : Len(t) = n - 1 }, e \in S }

Manifests == SeqsUpTo(EntryPool, MaxFiles)

Archives == { Modpack(m) : m \in Manifests } \cup { NoManifestZip }

\* the inputs of the runs that are followed by a second run
RerunPool ==
    { f \in EntryPool : f.fileID \in {5433036, 4000000, 4000001} }

RerunArchives == { Modpack(m) : m \in SeqsUpTo(RerunPool, MaxRerunFiles) }

ProjectIds == { f.projectID : f \in EntryPool }

\* ModpackInstaller(api, concurrency, max_retries) over CurseForgeAPI(concurrency)
Configs ==
    { [concurrency |-> 1, api_concurrency |-> 2, max_retries |-> 1,
       progress_callback |-> "none"],
      [concurrency |-> 2, api_concurrency |-> 1, max_retries |-> 2,
       progress_callback |-> "returns"],
      [concurrency |-> 2, api_concurrency |-> 2, max_retries |-> 3,
       progress_callback |-> "raises"],
      [concurrency |-> 1, api_concurrency |-> 1, max_retries |-> 0,
       progress_callback |-> "returns"] }

VARIABLES
    archive,        \* the modpack zip: its entries, in namelist order
    manifest,       \* install: the parsed manifest's fields other than files
    files,          \* install: manifest.files
    summary,        \* the counts each stage has logged, <<>> before it has
    earlier,        \* what an earlier install into output_dir did, or Absent
    config,         \* the installer's and the client's configuration
    pc,             \* where install is
    task,           \* the state of each task of the stage being gathered
    semaphore,      \* the stage's asyncio.Semaphore(self._concurrency)
    api_semaphore,  \* CurseForgeAPI._semaphore
    resolved,       \* _resolve_files: the `resolved` list
    finished,       \* the stage's `finished` counter
    reported,       \* the calls of progress_callback made so far, in order
    resolved_files, \* install: what _resolve_files returned
    outcome,        \* how each entry's file lookup ended
    lookups,        \* number of api.get_mod_file calls made for each entry
    downloadable,   \* _download_files: the entries it will download
    unique_ids,     \* _determine_file_targets: the project ids, in task order
    class_ids,      \* _determine_file_targets: the class_ids dict
    mod_lookups,    \* number of api.get_mod calls made for each project
    mod_outcome,    \* how each project's lookup ended
    file_targets,   \* _download_files: the (entry, target path) pairs
    attempt,        \* download_one: the loop's `attempt` of each target
    waits,          \* download_one: the sleeps of each target, in order
    result,         \* how each target's download_one ended
    fs,             \* the files under output_dir: path -> content
    manifest_out,   \* output_dir/manifest.json: the manifest written, or Absent
    faults,         \* transient failures the network may still produce
    call            \* a call of a function of fingerprint.py or url.py, or Absent

stage_vars == << task, semaphore, api_semaphore, finished, reported >>
resolve_vars == << resolved, resolved_files, outcome, lookups >>
target_vars == << downloadable, unique_ids, class_ids, mod_lookups, mod_outcome,
                  file_targets >>
download_vars == << attempt, waits, result, fs >>

install_vars == << archive, manifest, files, config, summary, earlier, call >>

vars == << install_vars, pc, stage_vars, resolve_vars, target_vars,
           download_vars, manifest_out, faults >>

(***************************************************************************)
(* asyncio.Semaphore: a counter and a FIFO queue of waiting tasks.         *)
(* release() hands the permit to the first waiter, which is then woken and *)
(* runs later; acquire() queues when the gate is locked.                   *)
(***************************************************************************)
Semaphore(n) == [value |-> n, waiters |-> <<>>]

\* a variant that looks at the queue only, not at the permits left
lockedIgnoresValue(s, tk, wokenState) ==
    \/ s.waiters # <<>>
    \/ \E t \in DOMAIN tk : tk[t] = wokenState

\* Semaphore.locked(): no permit, or somebody is queued or woken ahead
locked(s, tk, wokenState) ==
    \/ s.value = 0
    \/ s.waiters # <<>>
    \/ \E t \in DOMAIN tk : tk[t] = wokenState

\* a variant that is a batch barrier: waiters are let in only once every
\* permit of the gate has come back
releaseWhenAllBack(s) ==
    IF s.waiters = <<>> \/ s.value + 1 < config.concurrency
    THEN [sem |-> [s EXCEPT !.value = s.value + 1], wake |-> {}]
    ELSE [sem |-> [s EXCEPT !.waiters = Tail(s.waiters)], wake |-> {Head(s.waiters)}]

\* Semaphore.release(): [sem, wake], wake being the tasks to mark woken
release(s) ==
    IF s.waiters = <<>>
    THEN [sem |-> [s EXCEPT !.value = s.value + 1], wake |-> {}]
    ELSE [sem |-> [s EXCEPT !.waiters = Tail(s.waiters)], wake |-> {Head(s.waiters)}]

\* the tail of acquire() in a woken waiter: while value > 0, wake the next
RECURSIVE wake_up(_)
wake_up(s) ==
    IF s.value > 0 /\ s.waiters # <<>>
    THEN LET r == wake_up([value |-> s.value - 1, waiters |-> Tail(s.waiters)])
         IN  [sem |-> r.sem, wake |-> r.wake \cup {Head(s.waiters)}]
    ELSE [sem |-> s, wake |-> {}]


\* a variant in which the event loop starts the tasks of a stage in any order
gather_startsAnyOrder(tk, idx) == idx \in DOMAIN tk

\* `tasks = [one(i, f) for i, f in enumerate(...)]; await asyncio.gather(*tasks)`:
\* the coroutines become tasks in list order and the loop runs their first
\* steps in that order, so task idx starts once all before it have started
gather_starts(tk, idx) == \A j \in 1..(idx - 1) : tk[j] # "new"

\* tk with the tasks of W marked st
Mark(tk, W, st) == [t \in DOMAIN tk |-> IF t \in W THEN st ELSE tk[t]]

\* a variant that returns as soon as one task has finished
AnyDone == \E t \in DOMAIN task : task[t] = "done"

\* `await asyncio.gather(*tasks)`: every task of the stage has finished
AllDone == \A t \in DOMAIN task : task[t] = "done"
AllStarted == \A t \in DOMAIN task : task[t] # "new"

(***************************************************************************)
(* Init: install has parsed the manifest and is about to resolve it.       *)
(***************************************************************************)
\* everything of a run that install and its stages set up themselves
fresh_run ==
    /\ manifest = Absent
    /\ files = <<>>
    /\ summary = [extracted |-> <<>>, resolved |-> <<>>, downloaded |-> <<>>]
    /\ pc = "parse"
    /\ task = <<>>
    /\ semaphore = Semaphore(config.concurrency)
    /\ resolved = <<>>
    /\ finished = 0
    /\ reported = <<>>
    /\ resolved_files = <<>>
    /\ outcome = <<>>
    /\ lookups = <<>>

\* install is entered for the first time, on whatever zip and configuration
before_install ==
    /\ earlier = Absent
    /\ fresh_run
    /\ api_semaphore = Semaphore(config.api_concurrency)
    /\ downloadable = <<>>
    /\ unique_ids = <<>>
    /\ class_ids = <<>>
    /\ mod_lookups = [p \in ProjectIds |-> 0]
    /\ mod_outcome = [p \in ProjectIds |-> "none"]
    /\ file_targets = <<>>
    /\ attempt = <<>>
    /\ waits = <<>>
    /\ result = <<>>
    /\ fs = <<>>
    /\ manifest_out = Absent
    /\ faults = MaxFaults
    /\ call = Absent

Init ==
    /\ archive \in Archives
    /\ config \in Configs
    /\ before_install

(***************************************************************************)
(* install, steps 1 and 2: _parse_manifest and _extract_overrides.         *)
(***************************************************************************)
Last(name) == name[Len(name)]

\* `name == "manifest.json" or name.endswith("/manifest.json")`
is_manifest(info) ==
    /\ ~info.is_dir
    /\ Len(info.filename) >= 1
    /\ Last(info.filename) = "manifest.json"

\* the first entry of namelist() that is a manifest, 0 when there is none
RECURSIVE find_manifest(_, _)
find_manifest(zf, i) ==
    IF i > Len(zf) THEN 0
    ELSE IF is_manifest(zf[i]) THEN i
    ELSE find_manifest(zf, i + 1)

\* a variant that goes on with an empty manifest when the zip has none
ParseManifestLenient ==
    /\ pc = "parse"
    /\ LET at == find_manifest(archive, 1)
           raw == IF at = 0 THEN CurseManifest(<<>>) ELSE archive[at].content
       IN  /\ manifest' = [raw EXCEPT !.files = <<>>]
           /\ files' = raw.files
           /\ pc' = "extract_overrides"
    /\ UNCHANGED << call, archive, config, summary, earlier, stage_vars, resolve_vars,
                    target_vars, download_vars, manifest_out, faults >>

\* _parse_manifest: the manifest document is read, or FileNotFoundError
\* leaves install
ParseManifest ==
    /\ pc = "parse"
    /\ LET at == find_manifest(archive, 1)
       IN  IF at = 0
           THEN /\ pc' = "manifest_not_found"
                /\ UNCHANGED << manifest, files >>
           ELSE /\ manifest' = [archive[at].content EXCEPT !.files = <<>>]
                /\ files' = archive[at].content.files
                /\ pc' = "extract_overrides"
    /\ UNCHANGED << call, archive, config, summary, earlier, stage_vars, resolve_vars,
                    target_vars, download_vars, manifest_out, faults >>

\* the path made of segments
RECURSIVE Join(_)
Join(segments) ==
    IF Len(segments) = 1 THEN segments[1]
    ELSE segments[1] \o "/" \o Join(Tail(segments))

\* info.filename.startswith(prefix), prefix ending in "/"
starts_with(info, prefix) ==
    /\ Len(info.filename) >= Len(prefix)
    /\ SubSeq(info.filename, 1, Len(prefix)) = prefix
    /\ Len(info.filename) > Len(prefix) \/ info.is_dir

\* info.filename[len(prefix):]
rel_path(info, prefix) == SubSeq(info.filename, Len(prefix) + 1, Len(info.filename))

\* a variant that extracts every file of the zip
is_overrideAny(info, prefix) == ~info.is_dir

\* the entries _extract_overrides writes
is_override(info, prefix) ==
    /\ starts_with(info, prefix)
    /\ rel_path(info, prefix) # <<>>
    /\ ~info.is_dir

\* a file written from the zip
extracted(content) ==
    [url |-> content, complete |-> TRUE, writers |-> {}, mixed |-> FALSE]

\* the loop of _extract_overrides from entry i on, over the files files_:
\* the files it leaves and its `count`
RECURSIVE extract_from(_, _, _, _, _)
extract_from(zf, i, prefix, files_, count) ==
    IF i > Len(zf) THEN [fs |-> files_, count |-> count]
    ELSE IF is_override(zf[i], prefix)
    THEN extract_from(zf, i + 1, prefix,
                      (Join(rel_path(zf[i], prefix)) :> extracted(zf[i].content))
                          @@ files_,
                      count + 1)
    ELSE extract_from(zf, i + 1, prefix, files_, count)

\* _extract_overrides, and _resolve_files up to its gather
ExtractOverrides ==
    /\ pc = "extract_overrides"
    /\ LET done == extract_from(archive, 1, manifest.overrides, fs, 0)
       IN  /\ fs' = done.fs
           /\ summary' = [summary EXCEPT !.extracted = << done.count >>]
    /\ pc' = "resolve"
    /\ task' = [i \in 1..Len(files) |-> "new"]
    /\ semaphore' = Semaphore(config.concurrency)
    /\ resolved' = [i \in 1..Len(files) |-> Unset]
    /\ finished' = 0
    /\ reported' = reported
    /\ outcome' = [i \in 1..Len(files) |-> "none"]
    /\ lookups' = [i \in 1..Len(files) |-> 0]
    /\ UNCHANGED << call, archive, manifest, files, config, earlier,
                    api_semaphore, resolved_files, target_vars, attempt, waits,
                    result, manifest_out, faults >>

(***************************************************************************)
(* Stage A: _resolve_files and its task resolve_one(idx, f).               *)
(***************************************************************************)
\* a variant that looks every entry up
passes_throughNever(f) == FALSE

\* resolve_one's test for an entry that needs no lookup
passes_through(f) == Truthy(f.fileName) /\ Truthy(f.url)

\* the entry built from a successful lookup
resolved_entry(f, addon_file) ==
    LET download_url ==
            IF Truthy(addon_file.download_url) THEN addon_file.download_url
            ELSE build_cdn_url(addon_file.id, addon_file.file_name)
    IN  CurseManifestFile(f.projectID, f.fileID, addon_file.file_name,
                          download_url, f.required)

\* the entry kept when the lookup raised (all three except branches)
failed_entry(f) == f

\* what get_mod_file can raise: HTTPStatusError with status 404 or with
\* another status, or any other exception (timeout, connection error, a
\* malformed answer)
LookupErrors == {"not_found", "http_status", "exception"}

\* a variant without the `except Exception` clause
resolve_exceptHttpOnly(kind) ==
    CASE kind = "not_found" -> "not_found"
      [] kind = "http_status" -> "error"
      [] OTHER -> "raise"

\* resolve_one's except clauses: how the error is handled.  "not_found" is
\* the warning branch, "error" the two branches that log an error, "raise"
\* an error no clause catches
resolve_except(kind) ==
    CASE kind = "not_found" -> "not_found"
      [] kind = "http_status" -> "error"
      [] OTHER -> "error"

\* `if progress_callback: progress_callback(finished, total, message)`: the
\* calls made so far and this one, if there is a callback.  The message is
\* kept without the file name that a download's message ends with.
report(current, total, message) ==
    IF config.progress_callback = "none" THEN reported
    ELSE Append(reported, [current |-> current, total |-> total,
                           message |-> message])

\* `if progress_callback: progress_callback(finished, total, ...)` at the
\* end of a task, inside `async with semaphore` and outside any try: where
\* install is after the call.  A callback that raises ends the task with
\* its exception, which gather passes on to the stage and to install.
progress_callback(at) ==
    IF config.progress_callback = "raises" THEN {at, "callback_raised"}
    ELSE {at}

\* a variant that stores results in completion order
finish_resolveAppends(idx, entry, kind, tk, sem, api) ==
    LET r == release(sem)
    IN  /\ files' = files
        /\ resolved' = [resolved EXCEPT ![finished + 1] = entry]
        /\ outcome' = [outcome EXCEPT ![idx] = kind]
        /\ finished' = finished + 1
        /\ reported' = report(finished + 1, Len(files), "Resolving file info")
        /\ pc' \in progress_callback(pc)
        /\ semaphore' = r.sem
        /\ api_semaphore' = api
        /\ task' = [Mark(tk, r.wake, "woken") EXCEPT ![idx] = "done"]

\* a variant that fills the parsed entry in rather than building a new one
finish_resolveInPlace(idx, entry, kind, tk, sem, api) ==
    LET r == release(sem)
    IN  /\ files' = [files EXCEPT ![idx] = entry]
        /\ resolved' = [resolved EXCEPT ![idx] = entry]
        /\ outcome' = [outcome EXCEPT ![idx] = kind]
        /\ finished' = finished + 1
        /\ reported' = report(finished + 1, Len(files), "Resolving file info")
        /\ pc' \in progress_callback(pc)
        /\ semaphore' = r.sem
        /\ api_semaphore' = api
        /\ task' = [Mark(tk, r.wake, "woken") EXCEPT ![idx] = "done"]

\* resolve_one from `resolved[idx] = ...` to the end: store, count, report,
\* leave the gate.  tk, sem, api are the stage's state just before.  The
\* entry stored is f itself or a new CurseManifestFile: no field of f is
\* assigned, the parsed list stays as it is.
finish_resolve(idx, entry, kind, tk, sem, api) ==
    LET r == release(sem)
    IN  /\ files' = files
        /\ resolved' = [resolved EXCEPT ![idx] = entry]
        /\ outcome' = [outcome EXCEPT ![idx] = kind]
        /\ finished' = finished + 1
        /\ reported' = report(finished + 1, Len(files), "Resolving file info")
        /\ pc' \in progress_callback(pc)
        /\ semaphore' = r.sem
        /\ api_semaphore' = api
        /\ task' = [Mark(tk, r.wake, "woken") EXCEPT ![idx] = "done"]

\* CurseForgeAPI._get up to the request: enter the client's gate or queue
api_get(idx, tk, sem) ==
    /\ semaphore' = sem
    /\ IF locked(api_semaphore, tk, "api_woken")
       THEN /\ api_semaphore' =
                   [api_semaphore EXCEPT !.waiters = Append(@, idx)]
            /\ task' = [tk EXCEPT ![idx] = "api_waiting"]
       ELSE /\ api_semaphore' =
                   [api_semaphore EXCEPT !.value = @ - 1]
            /\ task' = [tk EXCEPT ![idx] = "in_flight"]

\* resolve_one once it holds the stage gate
resolve_body(idx, tk, sem) ==
    LET f == files[idx]
    IN  IF passes_through(f)
        THEN /\ finish_resolve(idx, f, "passed", tk, sem, api_semaphore)
             /\ UNCHANGED << lookups, faults >>
        ELSE /\ api_get(idx, tk, sem)
             /\ lookups' = [lookups EXCEPT ![idx] = @ + 1]
             /\ UNCHANGED << files, pc, resolved, outcome, finished, reported, faults >>

\* gather starts resolve_one(idx, f): it enters the gate or queues on it
StartResolveOne(idx) ==
    /\ pc = "resolve"
    /\ task[idx] = "new"
    /\ gather_starts(task, idx)
    /\ IF locked(semaphore, task, "woken")
       THEN /\ semaphore' = [semaphore EXCEPT !.waiters = Append(@, idx)]
            /\ task' = [task EXCEPT ![idx] = "waiting"]
            /\ UNCHANGED << files, pc, api_semaphore, resolved, outcome,
                            finished, reported, lookups, faults >>
       ELSE resolve_body(idx, task, [semaphore EXCEPT !.value = @ - 1])
    /\ UNCHANGED << call, archive, manifest, config, summary, earlier, resolved_files,
                    target_vars, download_vars, manifest_out >>

\* a waiter the gate has admitted runs on
WakeResolveOne(idx) ==
    /\ pc = "resolve"
    /\ task[idx] = "woken"
    /\ LET w == wake_up(semaphore)
       IN  resolve_body(idx, Mark(task, w.wake, "woken"), w.sem)
    /\ UNCHANGED << call, archive, manifest, config, summary, earlier, resolved_files,
                    target_vars, download_vars, manifest_out >>

\* CurseForgeAPI._get: a waiter the client's gate has admitted sends its
\* request (a task of the resolution or of the classification stage)
ApiGateAdmits(idx) ==
    /\ pc \in {"resolve", "file_targets"}
    /\ task[idx] = "api_woken"
    /\ LET w == wake_up(api_semaphore)
       IN  /\ api_semaphore' = w.sem
           /\ task' = [Mark(task, w.wake, "api_woken") EXCEPT ![idx] = "in_flight"]
    /\ UNCHANGED << install_vars, pc, semaphore, finished, reported, resolve_vars,
                    target_vars, download_vars, manifest_out, faults >>

\* the catalog answers get_mod_file with the file's metadata
FileFound(idx) ==
    /\ pc = "resolve"
    /\ task[idx] = "in_flight"
    /\ AllStarted
    /\ LET f == files[idx]
           addon_file == CatalogFile(f.projectID, f.fileID)
           a == release(api_semaphore)
       IN  /\ addon_file.status = 200
           /\ finish_resolve(idx, resolved_entry(f, addon_file), "ok",
                             Mark(task, a.wake, "api_woken"), semaphore, a.sem)
    /\ UNCHANGED << call, archive, manifest, config, summary, earlier, resolved_files,
                    lookups, faults, target_vars, download_vars, manifest_out >>

\* get_mod_file raised `kind`: the except clause that matches keeps the
\* entry; an error none of them catches leaves resolve_one, and gather
\* passes it on to _resolve_files and install
lookup_raised(idx, kind) ==
    LET a == release(api_semaphore)
        handled == resolve_except(kind)
    IN  IF handled = "raise"
        THEN /\ pc' = "raised"
             /\ UNCHANGED << files, stage_vars, resolved, outcome >>
        ELSE finish_resolve(idx, failed_entry(files[idx]), handled,
                            Mark(task, a.wake, "api_woken"), semaphore, a.sem)

\* the catalog answers 404: _get raises HTTPStatusError
FileNotFound(idx) ==
    /\ pc = "resolve"
    /\ task[idx] = "in_flight"
    /\ AllStarted
    /\ CatalogFile(files[idx].projectID, files[idx].fileID).status = 404
    /\ lookup_raised(idx, "not_found")
    /\ UNCHANGED << call, archive, manifest, config, summary, earlier, resolved_files,
                    lookups, faults, target_vars, download_vars, manifest_out >>

\* the lookup fails otherwise: another HTTP status, a timeout, a connection
\* error
FileLookupFails(idx) ==
    /\ pc = "resolve"
    /\ task[idx] = "in_flight"
    /\ AllStarted
    /\ faults > 0
    /\ faults' = faults - 1
    /\ \E kind \in {"http_status", "exception"} : lookup_raised(idx, kind)
    /\ UNCHANGED << call, archive, manifest, config, summary, earlier, resolved_files,
                    lookups, target_vars, download_vars, manifest_out >>

\* `ok_count = sum(1 for f in resolved if f and f.file_name)`
ok_count(rs) ==
    Cardinality({ i \in DOMAIN rs : rs[i] # Unset /\ Truthy(rs[i].fileName) })

\* gather has every result: _resolve_files logs "Resolved %d / %d files"
\* and returns the list
ReturnResolved ==
    /\ pc = "resolve"
    /\ AllDone
    /\ resolved_files' = SelectSeq(resolved, LAMBDA f : f # Unset)
    /\ summary' = [summary EXCEPT !.resolved = << ok_count(resolved), Len(files) >>]
    /\ pc' = "download_files"
    /\ UNCHANGED << call, archive, manifest, files, config, earlier, stage_vars,
                    resolved, outcome, lookups, target_vars, download_vars,
                    manifest_out, faults >>

(***************************************************************************)
(* _download_files up to the classification, and Stage B:                  *)
(* _determine_file_targets with its task fetch_class_id(project_id).       *)
(***************************************************************************)
\* a variant that tests the file name only
is_downloadableByName(f) == Truthy(f.fileName)

\* the test of `downloadable = [f for f in files if f.file_name and f.url]`
is_downloadable(f) == Truthy(f.fileName) /\ Truthy(f.url)

\* the sequences that list each member of S once: a set's iteration orders
RECURSIVE Orders(_)
Orders(S) ==
    IF S = {} THEN { <<>> }
    ELSE UNION { { <<x>> \o o : o \in Orders(S \ {x}) } : x \in S }

\* a variant without the deduplication: one task per entry
fetch_tasksPerEntry(fs_) == { [k \in 1..Len(fs_) |-> fs_[k].projectID] }

\* the arguments of the fetch_with_progress tasks that gather starts:
\* `for pid in unique_ids`, unique_ids = set(f.project_id for f in files)
fetch_tasks(fs_) == Orders({ fs_[k].projectID : k \in 1..Len(fs_) })

\* class_ids.get(project_id, SECTION_MOD)
class_id_of(ids, project_id) ==
    IF project_id \in DOMAIN ids THEN ids[project_id] ELSE SECTION_MOD

\* a variant that ignores the classId
subdirAlwaysMods(cid) == "mods"

\* the subdirectory chosen for a classId
subdir(cid) ==
    IF cid = SECTION_RESOURCE_PACK THEN "resourcepacks"
    ELSE IF cid = SECTION_SHADER_PACK THEN "shaderpacks"
    ELSE "mods"

\* output_dir / subdir / f.file_name, relative to output_dir
target_path(dir, file_name) == dir \o "/" \o file_name

\* the class id stored when api.get_mod raised
failed_class_id == SECTION_MOD

\* _download_files, from its start to the gather of _determine_file_targets
BeginDownloadFiles ==
    /\ pc = "download_files"
    /\ LET d == SelectSeq(resolved_files, is_downloadable)
       IN  /\ downloadable' = d
           /\ IF d = <<>>
              THEN /\ pc' = "save"
                   /\ UNCHANGED << stage_vars, unique_ids, class_ids >>
              ELSE /\ pc' = "file_targets"
                   /\ \E order \in fetch_tasks(d) :
                        /\ unique_ids' = order
                        /\ task' = [k \in 1..Len(order) |-> "new"]
                   /\ semaphore' = Semaphore(config.concurrency)
                   /\ class_ids' = <<>>
                   /\ UNCHANGED << api_semaphore, finished, reported >>
    /\ UNCHANGED << install_vars, resolve_vars, mod_lookups, mod_outcome,
                    file_targets, download_vars, manifest_out, faults >>

\* fetch_class_id once it holds the stage gate: call api.get_mod
fetch_body(k, tk, sem) ==
    /\ api_get(k, tk, sem)
    /\ mod_lookups' = [mod_lookups EXCEPT ![unique_ids[k]] = @ + 1]
    /\ UNCHANGED << finished, reported, class_ids, mod_outcome, faults >>

StartFetchClassId(k) ==
    /\ pc = "file_targets"
    /\ task[k] = "new"
    /\ gather_starts(task, k)
    /\ IF locked(semaphore, task, "woken")
       THEN /\ semaphore' = [semaphore EXCEPT !.waiters = Append(@, k)]
            /\ task' = [task EXCEPT ![k] = "waiting"]
            /\ UNCHANGED << api_semaphore, finished, reported, class_ids, mod_lookups,
                            mod_outcome, faults >>
       ELSE fetch_body(k, task, [semaphore EXCEPT !.value = @ - 1])
    /\ UNCHANGED << install_vars, pc, resolve_vars, downloadable, unique_ids,
                    file_targets, download_vars, manifest_out >>

WakeFetchClassId(k) ==
    /\ pc = "file_targets"
    /\ task[k] = "woken"
    /\ LET w == wake_up(semaphore)
       IN  fetch_body(k, Mark(task, w.wake, "woken"), w.sem)
    /\ UNCHANGED << install_vars, pc, resolve_vars, downloadable, unique_ids,
                    file_targets, download_vars, manifest_out >>

\* a variant that lets a non-HTTP error through
fetch_exceptHttpOnly(kind) == kind # "exception"

\* fetch_class_id's `except Exception`: whether it catches the error
fetch_except(kind) == TRUE

\* fetch_class_id from the answer on: store the class id, leave both gates
finish_fetch(k, cid, how) ==
    LET a == release(api_semaphore)
        r == release(semaphore)
    IN  /\ class_ids' = (unique_ids[k] :> cid) @@ class_ids
        /\ mod_outcome' = [mod_outcome EXCEPT ![unique_ids[k]] = how]
        /\ api_semaphore' = a.sem
        /\ semaphore' = r.sem
        /\ task' = [Mark(Mark(task, a.wake, "api_woken"), r.wake, "woken")
                        EXCEPT ![k] = "done"]

\* the catalog answers get_mod with the project's metadata
ModFound(k) ==
    /\ pc = "file_targets"
    /\ task[k] = "in_flight"
    /\ AllStarted
    /\ CatalogMod(unique_ids[k]).status = 200
    /\ finish_fetch(k, CatalogMod(unique_ids[k]).class_id, "ok")
    /\ UNCHANGED << install_vars, pc, finished, reported, resolve_vars, downloadable,
                    unique_ids, mod_lookups, file_targets, download_vars,
                    manifest_out, faults >>

\* get_mod raises (any error): fetch_class_id warns and defaults to mods
ModLookupFails(k) ==
    /\ pc = "file_targets"
    /\ task[k] = "in_flight"
    /\ AllStarted
    /\ faults > 0
    /\ faults' = faults - 1
    /\ \E kind \in LookupErrors :
         IF fetch_except(kind)
         THEN /\ pc' = pc
              /\ finish_fetch(k, failed_class_id, "error")
         ELSE /\ pc' = "raised"
              /\ UNCHANGED << task, semaphore, api_semaphore, class_ids,
                              mod_outcome >>
    /\ UNCHANGED << install_vars, finished, reported, resolve_vars, downloadable,
                    unique_ids, mod_lookups, file_targets, download_vars,
                    manifest_out >>

\* the (entry, target) pairs built after the gather
targets_of(fs_, ids) ==
    [k \in 1..Len(fs_) |->
        [f |-> fs_[k],
         target |-> target_path(subdir(class_id_of(ids, fs_[k].projectID)),
                                fs_[k].fileName)]]

\* a variant that does not await the gather of the fetch tasks: it builds the
\* targets once the tasks have started
ReturnFileTargetsUnawaited ==
    /\ pc = "file_targets"
    /\ AllStarted
    /\ LET t == targets_of(downloadable, class_ids)
       IN  /\ file_targets' = t
           /\ task' = [k \in 1..Len(t) |-> "new"]
           /\ attempt' = [k \in 1..Len(t) |-> 0]
           /\ waits' = [k \in 1..Len(t) |-> <<>>]
           /\ result' = [k \in 1..Len(t) |-> "none"]
    /\ semaphore' = Semaphore(config.concurrency)
    /\ finished' = 0
    /\ reported' = reported
    /\ unique_ids' = <<>>
    /\ pc' = "download"
    /\ UNCHANGED << install_vars, api_semaphore, resolve_vars, downloadable,
                    class_ids, mod_lookups, mod_outcome, fs, manifest_out,
                    faults >>

\* _determine_file_targets returns; _download_files sets up its gather
ReturnFileTargets ==
    /\ pc = "file_targets"
    /\ AllDone
    /\ LET t == targets_of(downloadable, class_ids)
       IN  /\ file_targets' = t
           /\ task' = [k \in 1..Len(t) |-> "new"]
           /\ attempt' = [k \in 1..Len(t) |-> 0]
           /\ waits' = [k \in 1..Len(t) |-> <<>>]
           /\ result' = [k \in 1..Len(t) |-> "none"]
    /\ semaphore' = Semaphore(config.concurrency)
    /\ finished' = 0
    /\ reported' = reported
    /\ unique_ids' = <<>>
    /\ pc' = "download"
    /\ UNCHANGED << install_vars, api_semaphore, resolve_vars, downloadable,
                    class_ids, mod_lookups, mod_outcome, fs, manifest_out,
                    faults >>

(***************************************************************************)
(* Stage C: the task download_one(f, target) and _download_file.           *)
(***************************************************************************)
exists(path) == path \in DOMAIN fs

\* target.unlink() when target.exists()
unlink(files_, path) == [q \in DOMAIN files_ \ {path} |-> files_[q]]

\* A file is [url, complete, writers, mixed]: the URL it was last opened
\* for, whether it holds that URL's whole content, the tasks that hold it
\* open for writing, and whether chunks of another URL went into it.
\* open(target, "wb"): the file is created, or the existing file truncated,
\* whichever tasks hold it open
opened(files_, path, url, k) ==
    LET shared == path \in DOMAIN files_ /\ files_[path].writers # {}
        file == [url |-> url,
                 complete |-> FALSE,
                 writers |-> IF shared THEN files_[path].writers \cup {k} ELSE {k},
                 mixed |-> shared /\ (files_[path].mixed \/ files_[path].url # url)]
    IN  (path :> file) @@ files_

\* task k has written its last chunk and closes the file: the file under
\* the path is whole when it is the one k wrote, nobody else still writes
\* it and nothing else was written into it
written(files_, path, url, k) ==
    IF path \in DOMAIN files_ /\ k \in files_[path].writers
    THEN LET rest == files_[path].writers \ {k}
         IN  [files_ EXCEPT ![path] =
                [@ EXCEPT !.writers = rest,
                          !.complete = (rest = {}) /\ ~files_[path].mixed]]
    ELSE files_

\* a variant in which a failed task cancels the tasks gathered with it
finish_downloadCancels(k, how, tk, sem) ==
    LET r == release(sem)
    IN  /\ result' = [j \in DOMAIN result |->
                        IF j = k THEN how
                        ELSE IF how = "failed" /\ result[j] = "none" THEN "cancelled"
                        ELSE result[j]]
        /\ finished' = finished + 1
        /\ reported' = report(finished + 1, Len(file_targets), "Downloading")
        /\ pc' \in progress_callback(pc)
        /\ semaphore' = r.sem
        /\ task' = IF how = "failed" THEN [j \in DOMAIN tk |-> "done"]
                   ELSE [Mark(tk, r.wake, "woken") EXCEPT ![k] = "done"]

\* a variant in which a task that failed does not hand its permit back
finish_downloadKeepsPermit(k, how, tk, sem) ==
    LET r == release(sem)
    IN  /\ result' = [result EXCEPT ![k] = how]
        /\ finished' = finished + 1
        /\ reported' = report(finished + 1, Len(file_targets), "Downloading")
        /\ pc' \in progress_callback(pc)
        /\ semaphore' = IF how = "failed" THEN sem ELSE r.sem
        /\ task' = IF how = "failed" THEN [tk EXCEPT ![k] = "done"]
                   ELSE [Mark(tk, r.wake, "woken") EXCEPT ![k] = "done"]

\* download_one from `finished += 1` on: count, report, leave the gate
finish_download(k, how, tk, sem) ==
    LET r == release(sem)
    IN  /\ result' = [result EXCEPT ![k] = how]
        /\ finished' = finished + 1
        /\ reported' = report(finished + 1, Len(file_targets), "Downloading")
        /\ pc' \in progress_callback(pc)
        /\ semaphore' = r.sem
        /\ task' = [Mark(tk, r.wake, "woken") EXCEPT ![k] = "done"]

\* a variant without the `if target.exists()` test
download_bodyNoSkip(k, tk, sem) ==
    IF config.max_retries < 1
    THEN /\ finish_download(k, "no_attempt", tk, sem)
         /\ UNCHANGED << attempt >>
    ELSE /\ attempt' = [attempt EXCEPT ![k] = 1]
         /\ task' = [tk EXCEPT ![k] = "connecting"]
         /\ semaphore' = sem
         /\ UNCHANGED << pc, result, finished, reported >>

\* download_one once it holds the stage gate
download_body(k, tk, sem) ==
    IF exists(file_targets[k].target)
    THEN /\ finish_download(k, "skipped", tk, sem)
         /\ UNCHANGED << attempt >>
    ELSE IF config.max_retries < 1
    THEN /\ finish_download(k, "no_attempt", tk, sem)
         /\ UNCHANGED << attempt >>
    ELSE /\ attempt' = [attempt EXCEPT ![k] = 1]
         /\ task' = [tk EXCEPT ![k] = "connecting"]
         /\ semaphore' = sem
         /\ UNCHANGED << pc, result, finished, reported >>

StartDownloadOne(k) ==
    /\ pc = "download"
    /\ task[k] = "new"
    /\ gather_starts(task, k)
    /\ IF locked(semaphore, task, "woken")
       THEN /\ semaphore' = [semaphore EXCEPT !.waiters = Append(@, k)]
            /\ task' = [task EXCEPT ![k] = "waiting"]
            /\ UNCHANGED << pc, finished, reported, attempt, result >>
       ELSE download_body(k, task, [semaphore EXCEPT !.value = @ - 1])
    /\ UNCHANGED << install_vars, api_semaphore, resolve_vars, target_vars,
                    waits, fs, manifest_out, faults >>

WakeDownloadOne(k) ==
    /\ pc = "download"
    /\ task[k] = "woken"
    /\ LET w == wake_up(semaphore)
       IN  download_body(k, Mark(task, w.wake, "woken"), w.sem)
    /\ UNCHANGED << install_vars, api_semaphore, resolve_vars, target_vars,
                    waits, fs, manifest_out, faults >>

\* _download_file: the response is good, the target is opened for writing
DownloadOpens(k) ==
    /\ pc = "download"
    /\ task[k] = "connecting"
    /\ AllStarted
    /\ fs' = opened(fs, file_targets[k].target, file_targets[k].f.url, k)
    /\ task' = [task EXCEPT ![k] = "streaming"]
    /\ UNCHANGED << install_vars, pc, semaphore, api_semaphore, finished, reported,
                    resolve_vars, target_vars, attempt, waits, result,
                    manifest_out, faults >>

\* _download_file returns: download_one leaves the loop
DownloadCompletes(k) ==
    /\ pc = "download"
    /\ task[k] = "streaming"
    /\ fs' = written(fs, file_targets[k].target, file_targets[k].f.url, k)
    /\ finish_download(k, "downloaded", task, semaphore)
    /\ UNCHANGED << install_vars, api_semaphore, resolve_vars, target_vars,
                    attempt, waits, manifest_out, faults >>

\* a variant that counts the attempts from 0
backoffFromZero(a) == 2 ^ (a - 1)

\* 2 ** attempt
backoff(a) == 2 ^ a

\* a variant whose loop runs once more: range(1, max_retries + 2)
download_failedOneMore(k) ==
    LET target == file_targets[k].target
        cleaned == IF exists(target) THEN unlink(fs, target) ELSE fs
    IN  /\ fs' = cleaned
        /\ IF attempt[k] <= config.max_retries
           THEN /\ waits' = [waits EXCEPT ![k] = Append(@, backoff(attempt[k]))]
                /\ task' = [task EXCEPT ![k] = "sleeping"]
                /\ UNCHANGED << pc, semaphore, finished, reported, result >>
           ELSE /\ finish_download(k, "failed", task, semaphore)
                /\ UNCHANGED << waits >>

\* download_one's except branch and what follows it: a retry after a sleep
\* when attempts remain, else the failure is logged and the task ends
download_failed(k) ==
    LET target == file_targets[k].target
        cleaned == IF exists(target) THEN unlink(fs, target) ELSE fs
    IN  /\ fs' = cleaned
        /\ IF attempt[k] < config.max_retries
           THEN /\ waits' = [waits EXCEPT ![k] = Append(@, backoff(attempt[k]))]
                /\ task' = [task EXCEPT ![k] = "sleeping"]
                /\ UNCHANGED << pc, semaphore, finished, reported, result >>
           ELSE /\ finish_download(k, "failed", task, semaphore)
                /\ UNCHANGED << waits >>

\* _download_file raises before the target is opened (connection error,
\* timeout, HTTP error status)
DownloadRefused(k) ==
    /\ pc = "download"
    /\ task[k] = "connecting"
    /\ AllStarted
    /\ faults > 0
    /\ faults' = faults - 1
    /\ download_failed(k)
    /\ UNCHANGED << install_vars, api_semaphore, resolve_vars, target_vars,
                    attempt, manifest_out >>

\* _download_file raises while streaming: a partial file is left behind
DownloadBreaks(k) ==
    /\ pc = "download"
    /\ task[k] = "streaming"
    /\ faults > 0
    /\ faults' = faults - 1
    /\ download_failed(k)
    /\ UNCHANGED << install_vars, api_semaphore, resolve_vars, target_vars,
                    attempt, manifest_out >>

\* asyncio.sleep(wait) is over: the next attempt
SleepEnds(k) ==
    /\ pc = "download"
    /\ task[k] = "sleeping"
    /\ attempt' = [attempt EXCEPT ![k] = @ + 1]
    /\ task' = [task EXCEPT ![k] = "connecting"]
    /\ UNCHANGED << install_vars, pc, semaphore, api_semaphore, finished, reported,
                    resolve_vars, target_vars, waits, result, fs, manifest_out,
                    faults >>

\* `total = len(file_targets)`, the number in "Downloaded %d files"
downloaded_count(results) == Len(results)

\* gather has every download_one: _download_files logs its count and returns
ReturnDownloaded ==
    /\ pc = "download"
    /\ AllDone
    /\ summary' = [summary EXCEPT !.downloaded = << downloaded_count(result) >>]
    /\ pc' = "save"
    /\ UNCHANGED << call, archive, manifest, files, config, earlier, stage_vars,
                    resolve_vars, target_vars, download_vars, manifest_out,
                    faults >>

(***************************************************************************)
(* install, step 5: the resolved manifest is written.                      *)
(***************************************************************************)
\* CurseManifest(manifestType=manifest.manifest_type, ..., files=resolved_files)
resolved_manifest(m, resolved_) == [m EXCEPT !.files = resolved_]

SaveManifest ==
    /\ pc = "save"
    /\ manifest_out' = resolved_manifest(manifest, resolved_files)
    /\ pc' = "done"
    /\ UNCHANGED << install_vars, stage_vars, resolve_vars, target_vars,
                    download_vars, faults >>

(***************************************************************************)
(* A second install of the same zip into the same output directory, after  *)
(* the first has returned: what is on disk stays, the run starts afresh.   *)
(***************************************************************************)
InstallAgain ==
    /\ pc = "done"
    /\ earlier = Absent
    /\ earlier' = [file_targets |-> file_targets, result |-> result,
                   outcome |-> outcome, mod_outcome |-> mod_outcome]
    /\ manifest' = Absent
    /\ files' = <<>>
    /\ summary' = [extracted |-> <<>>, resolved |-> <<>>, downloaded |-> <<>>]
    /\ pc' = "parse"
    /\ task' = <<>>
    /\ semaphore' = Semaphore(config.concurrency)
    /\ resolved' = <<>>
    /\ finished' = 0
    /\ reported' = <<>>
    /\ resolved_files' = <<>>
    /\ outcome' = <<>>
    /\ lookups' = <<>>
    /\ downloadable' = <<>>
    /\ unique_ids' = <<>>
    /\ class_ids' = <<>>
    /\ mod_lookups' = [p \in ProjectIds |-> 0]
    /\ mod_outcome' = [p \in ProjectIds |-> "none"]
    /\ file_targets' = <<>>
    /\ attempt' = <<>>
    /\ waits' = <<>>
    /\ result' = <<>>
    /\ UNCHANGED << call, archive, config, api_semaphore, fs, manifest_out, faults >>

(***************************************************************************)
(* The claims.  What they say is spelled out here with its own words       *)
(* (HasNameAndUrl, ExpectedCdnUrl, ExpectedDir), not with the operators    *)
(* that model the code.                                                    *)
(***************************************************************************)
HasNameAndUrl(f) == f.fileName \notin {None, ""} /\ f.url \notin {None, ""}
LacksNameAndUrl(f) == f.fileName \in {None, ""} /\ f.url \in {None, ""}

\* the task states in which a task holds a permit of the stage's gate
HoldsGate == {"woken", "api_waiting", "api_woken", "in_flight",
              "connecting", "streaming", "sleeping"}
\* the task states in which a task has a network operation under way
OnNetwork == {"in_flight", "connecting", "streaming"}
\* the task states in which a task holds a permit of the client's gate
HoldsApiGate == {"api_woken", "in_flight"}

TasksIn(states) == { t \in DOMAIN task : task[t] \in states }

AfterResolve == {"download_files", "file_targets", "download", "save", "done"}
AfterTargets == {"download", "save", "done"}

ExpectedCdnUrl(file_id, file_name) ==
    "https://edge.forgecdn.net/files/" \o ToString(file_id \div 1000) \o "/"
        \o ToString(file_id % 1000) \o "/" \o file_name

ExpectedDir(cid) ==
    CASE cid = 12 -> "resourcepacks"
      [] cid = 6552 -> "shaderpacks"
      [] OTHER -> "mods"

\* C1: at every instant, in each stage, at most `concurrency` tasks have
\* been admitted by the stage's gate and have not finished, so at most that
\* many network operations are in flight; catalog lookups are also capped
\* by the client's own gate.
C1_GateBound ==
    /\ Cardinality(TasksIn(HoldsGate)) <= config.concurrency
    /\ Cardinality(TasksIn(OnNetwork)) <= config.concurrency
    /\ Cardinality(TasksIn(HoldsApiGate)) <= config.api_concurrency

\* the download stage's gate is full and a task waits at it
C1_Witness ==
    /\ pc = "download"
    /\ Cardinality(TasksIn(HoldsGate)) = config.concurrency
    /\ TasksIn(OnNetwork) # {}
    /\ TasksIn({"waiting"}) # {}

\* C2: every entry handed to the download stage has a non-empty fileName
\* and a non-empty url; an entry whose resolution failed is in no download
\* set and has no target, yet is in the persisted entry list.
C2_DownloadSetResolved ==
    /\ \A k \in DOMAIN downloadable : HasNameAndUrl(downloadable[k])
    /\ \A k \in DOMAIN file_targets : HasNameAndUrl(file_targets[k].f)
    /\ \A i \in DOMAIN outcome :
         outcome[i] \in {"not_found", "error"} /\ pc \in AfterResolve =>
           /\ \A k \in DOMAIN downloadable : downloadable[k] # resolved_files[i]
           /\ \A k \in DOMAIN file_targets : file_targets[k].f # resolved_files[i]
           /\ pc = "done" => manifest_out.files[i] = files[i]
    /\ pc = "done" => Len(manifest_out.files) = Len(files)

\* a run has ended with one entry unresolved and another one downloaded
C2_Witness ==
    /\ pc = "done"
    /\ \E i \in DOMAIN outcome : outcome[i] \in {"not_found", "error"}
    /\ \E k \in DOMAIN result : result[k] = "downloaded"

SameIdentity(g, f) ==
    /\ g.projectID = f.projectID
    /\ g.fileID = f.fileID
    /\ g.required = f.required

\* C3: the resolution stage returns a list as long as its input whose
\* position i holds the result for input entry i (same projectId, fileId,
\* required), whatever the order the lookups complete in.
C3_OrderStable ==
    /\ \A i \in DOMAIN resolved :
         resolved[i] # Unset => SameIdentity(resolved[i], files[i])
    /\ pc \in AfterResolve =>
         /\ Len(resolved_files) = Len(files)
         /\ \A i \in DOMAIN outcome : SameIdentity(resolved_files[i], files[i])

\* the second entry's lookup has completed while the first is in flight
C3_Witness ==
    /\ pc = "resolve"
    /\ Len(files) >= 2
    /\ files[1] # files[2]
    /\ task[1] = "in_flight"
    /\ task[2] = "done"
    /\ outcome[2] = "ok"

\* C4: in the resolution stage every entry is attempted exactly once: an
\* entry lacking fileName and url gets exactly one file lookup, never a
\* second one, also after a failed lookup, and the stage returns only after
\* every entry has been attempted.
C4_AttemptedOnce ==
    /\ \A i \in DOMAIN lookups : lookups[i] <= 1
    /\ \A i \in DOMAIN outcome :
         LacksNameAndUrl(files[i]) /\ outcome[i] # "none" => lookups[i] = 1
    /\ pc \in AfterResolve => \A i \in DOMAIN outcome : outcome[i] # "none"

\* the stage has returned and an entry's one lookup had failed
C4_Witness ==
    /\ pc = "download_files"
    /\ \E i \in DOMAIN outcome :
         /\ LacksNameAndUrl(files[i])
         /\ outcome[i] = "error"
         /\ lookups[i] = 1

\* C5: an entry that already has a non-empty fileName and a non-empty url
\* passes through the resolution stage unchanged, without a lookup.
C5_PassThrough ==
    \A i \in DOMAIN outcome :
      HasNameAndUrl(files[i]) =>
        /\ lookups[i] = 0
        /\ outcome[i] \in {"none", "passed"}
        /\ resolved[i] \in {Unset, files[i]}
        /\ pc \in AfterResolve => resolved_files[i] = files[i]

\* the stage has returned a complete entry next to a looked-up one
C5_Witness ==
    /\ pc = "download_files"
    /\ \E i \in DOMAIN outcome : HasNameAndUrl(files[i]) /\ outcome[i] = "passed"
    /\ \E j \in DOMAIN outcome : outcome[j] = "ok"

\* C6: when an entry's lookup fails, with not-found or with another error,
\* the entry is kept as it was, nothing is raised, every other entry is
\* still attempted, and every entry that has a name and a url gets its
\* target and its download; the run ends normally.
C6_LookupFailureIsolated ==
    /\ pc # "raised"
    /\ \A i \in DOMAIN outcome :
         outcome[i] \in {"not_found", "error"} => resolved[i] = files[i]
    /\ pc \in AfterResolve =>
         \A j \in DOMAIN outcome :
           /\ outcome[j] # "none"
           /\ CatalogFile(files[j].projectID, files[j].fileID).status = 200
                /\ outcome[j] \notin {"passed", "error"}
                => outcome[j] = "ok" /\ HasNameAndUrl(resolved_files[j])
    /\ pc = "done" =>
         \A j \in DOMAIN outcome :
           HasNameAndUrl(resolved_files[j]) =>
             \E k \in DOMAIN file_targets :
               /\ file_targets[k].f = resolved_files[j]
               /\ result[k] # "none"

\* a run has ended with a failed lookup of each kind or with one failed and
\* another entry downloaded
C6_Witness ==
    /\ pc = "done"
    /\ \E i \in DOMAIN outcome : outcome[i] = "error"
    /\ \E j \in DOMAIN outcome :
         /\ outcome[j] = "ok"
         /\ \E k \in DOMAIN file_targets :
              file_targets[k].f = resolved_files[j] /\ result[k] = "downloaded"

\* C7: after a successful lookup the entry's fileName is the catalog's file
\* name and its url is the catalog's download URL when that is non-empty,
\* else the CDN URL made of the entry's fileId and the resolved file name.
C7_ResolvedValues ==
    \A i \in DOMAIN outcome :
      outcome[i] = "ok" =>
        LET c == CatalogFile(files[i].projectID, files[i].fileID)
        IN  /\ resolved[i].fileName = c.file_name
            /\ resolved[i].url =
                 IF c.download_url \notin {None, ""} THEN c.download_url
                 ELSE ExpectedCdnUrl(files[i].fileID, c.file_name)
            /\ files[i].fileID = 5433036 =>
                 resolved[i].url = "https://edge.forgecdn.net/files/5433/36/mod.jar"

\* one entry got the catalog's URL and another one the synthesized URL
C7_Witness ==
    \E i, j \in DOMAIN outcome :
      /\ outcome[i] = "ok"
      /\ outcome[j] = "ok"
      /\ CatalogFile(files[i].projectID, files[i].fileID).download_url
            \notin {None, ""}
      /\ CatalogFile(files[j].projectID, files[j].fileID).download_url = None
      /\ resolved[j].url = "https://edge.forgecdn.net/files/5433/36/mod.jar"

\* C8: in the classification stage each distinct project id among the
\* downloadable entries is looked up exactly once, so no two lookups of one
\* project are ever under way; a project that only unresolved entries
\* reference is not looked up.
C8_OneLookupPerProject ==
    /\ \A p \in ProjectIds : mod_lookups[p] <= 1
    /\ \A k1, k2 \in DOMAIN unique_ids :
         k1 # k2 => unique_ids[k1] # unique_ids[k2]
    /\ pc \in AfterTargets =>
         \A p \in ProjectIds :
           mod_lookups[p] =
             IF \E j \in DOMAIN resolved_files :
                  HasNameAndUrl(resolved_files[j]) /\ resolved_files[j].projectID = p
             THEN 1 ELSE 0

\* two targets of one project, which was looked up once
C8_Witness ==
    /\ pc = "download"
    /\ \E k1, k2 \in DOMAIN file_targets :
         /\ k1 # k2
         /\ file_targets[k1].f.projectID = file_targets[k2].f.projectID
         /\ file_targets[k1].f.fileID # file_targets[k2].f.fileID
         /\ mod_lookups[file_targets[k1].f.projectID] = 1

\* C9: every downloadable entry gets exactly one target, under
\* resourcepacks/ when its project's classId is the resource-pack class,
\* under shaderpacks/ when it is the shader-pack class, under mods/ for any
\* other classId, with the entry's fileName as file name.
C9_TargetsByClass ==
    pc \in AfterTargets =>
      LET d == SelectSeq(resolved_files, HasNameAndUrl)
      IN  /\ Len(file_targets) = Len(d)
          /\ \A k \in DOMAIN file_targets :
               /\ file_targets[k].f = d[k]
               /\ mod_outcome[d[k].projectID] = "ok" =>
                    file_targets[k].target =
                      ExpectedDir(CatalogMod(d[k].projectID).class_id)
                        \o "/" \o d[k].fileName

\* a resource pack and a file of a class without a directory of its own
C9_Witness ==
    /\ pc = "done"
    /\ \E k \in DOMAIN file_targets :
         file_targets[k].target = "resourcepacks/pack.zip"
    /\ \E k \in DOMAIN file_targets :
         /\ mod_outcome[1] = "ok"
         /\ CatalogMod(1).class_id = 17
         /\ file_targets[k].target = "mods/mod.jar"

\* C10: when a project's lookup fails, the entries of that project go to
\* mods/, nothing is raised, and the other projects are looked up and
\* classified as if nothing had failed.
C10_ProjectFailureDefaults ==
    /\ pc # "raised"
    /\ pc \in AfterTargets =>
         /\ \A k \in DOMAIN file_targets :
              LET f == file_targets[k].f
              IN  /\ mod_outcome[f.projectID] \in {"ok", "error"}
                  /\ mod_outcome[f.projectID] = "error" =>
                       file_targets[k].target = "mods/" \o f.fileName
         /\ \A p \in ProjectIds :
              mod_outcome[p] = "ok" => class_ids[p] = CatalogMod(p).class_id

\* a resource-pack project whose lookup failed, next to a shader pack
C10_Witness ==
    /\ pc = "done"
    /\ mod_outcome[2] = "error"
    /\ mod_outcome[3] = "ok"
    /\ \E k \in DOMAIN file_targets : file_targets[k].target = "mods/pack.zip"
    /\ \E k \in DOMAIN file_targets :
         file_targets[k].target = "shaderpacks/shader.zip"

\* C11: for a target whose destination does not exist the download stage
\* makes at most max_retries attempts, a further attempt only after a failed
\* one, and none after the first successful one.
C11_AttemptsBounded ==
    \A k \in DOMAIN attempt :
      /\ attempt[k] <= config.max_retries
      /\ attempt[k] <= Len(waits[k]) + 1
      /\ task[k] \in {"connecting", "streaming"} => attempt[k] = Len(waits[k]) + 1
      /\ task[k] = "sleeping" => attempt[k] = Len(waits[k])
      /\ result[k] = "downloaded" =>
           task[k] = "done" /\ attempt[k] = Len(waits[k]) + 1
      /\ result[k] = "failed" =>
           task[k] = "done" /\ attempt[k] = config.max_retries
                            /\ Len(waits[k]) = config.max_retries - 1
      /\ result[k] = "skipped" => attempt[k] = 0

\* a target has used up its two attempts
C11_Witness ==
    \E k \in DOMAIN result :
      /\ result[k] = "failed"
      /\ config.max_retries = 2
      /\ attempt[k] = 2
      /\ Len(waits[k]) = 1

\* C12: when a download task has finished, its destination holds the whole
\* content written by a successful attempt or does not exist; no partial
\* file of a failed attempt is under the destination when the next attempt
\* starts or after the last failed attempt.
C12_CleanOrComplete ==
    \A k \in DOMAIN result :
      LET target == file_targets[k].target
      IN  /\ result[k] \in {"downloaded", "failed"} =>
               target \notin DOMAIN fs \/ fs[target].complete
          /\ result[k] = "downloaded" => target \in DOMAIN fs

\* the wait after the i-th failed attempt: 2, 4, 8, ...
RECURSIVE ExpectedWait(_)
ExpectedWait(i) == IF i = 1 THEN 2 ELSE 2 * ExpectedWait(i - 1)

\* C13: the wait between failed attempt number k (from 1) and the next
\* attempt is 2^k time units, and there is a wait only between attempts,
\* none after the final failed attempt.
C13_BackoffDoubles ==
    \A k \in DOMAIN waits :
      /\ \A i \in DOMAIN waits[k] : waits[k][i] = ExpectedWait(i)
      /\ Len(waits[k]) <= attempt[k]
      /\ Len(waits[k]) < config.max_retries \/ config.max_retries = 0
      /\ task[k] = "sleeping" => attempt[k] < config.max_retries
      /\ result[k] = "failed" => Len(waits[k]) = attempt[k] - 1
      /\ result[k] = "downloaded" => Len(waits[k]) = attempt[k] - 1

\* a target that failed twice has waited 2, then 4
C13_Witness ==
    \E k \in DOMAIN waits :
      /\ waits[k] = << 2, 4 >>
      /\ attempt[k] = 3
      /\ task[k] \in {"connecting", "streaming", "done"}

\* C14: when a target's download has used up its retries no sibling is
\* cancelled: every other target's task runs to its own end (downloaded,
\* skipped or failed) and the download stage returns instead of raising.
C14_SiblingsUnaffected ==
    /\ pc # "raised"
    /\ \A j \in DOMAIN result :
         result[j] = "failed" =>
           /\ \A k \in DOMAIN result :
                /\ result[k] \in {"none", "downloaded", "skipped", "failed"}
                /\ result[k] = "none" => task[k] # "done"
                /\ task[k] = "done" => result[k] # "none"
           /\ pc \in {"save", "done"} =>
                \A k \in DOMAIN result :
                  result[k] \in {"downloaded", "skipped", "failed"}

\* with one task at a time, the second target was downloaded after the
\* first one had failed for good, and the run has ended
C14_Witness ==
    /\ pc = "done"
    /\ config.concurrency = 1
    /\ Len(file_targets) >= 2
    /\ result[1] = "failed"
    /\ result[2] = "downloaded"
    /\ file_targets[2].target \in DOMAIN fs

\* C15: a download target whose destination exists when its task is
\* admitted is skipped: no download attempt is made for it and the existing
\* file is left as it is.
C15_SkipsExisting ==
    /\ [](\A k \in DOMAIN result :
            result[k] = "skipped" => attempt[k] = 0 /\ waits[k] = <<>>)
    /\ [][\A k \in DOMAIN task :
            ( /\ pc = "download"
              /\ task[k] \in {"new", "woken"}
              /\ task'[k] \notin {"new", "waiting", "woken"}
              /\ file_targets[k].target \in DOMAIN fs )
            => ( /\ result'[k] = "skipped"
                 /\ task'[k] = "done"
                 /\ attempt'[k] = 0
                 /\ fs' = fs )]_vars

\* the second install has skipped a target that the first one downloaded
C15_Witness ==
    /\ earlier # Absent
    /\ \E k \in DOMAIN result :
         /\ result[k] = "skipped"
         /\ attempt[k] = 0
         /\ file_targets[k].target \in DOMAIN fs
         /\ fs[file_targets[k].target].complete
         /\ \E j \in DOMAIN earlier.result :
              /\ earlier.result[j] = "downloaded"
              /\ earlier.file_targets[j].target = file_targets[k].target

\* C16: a second install of the same archive into the same output directory,
\* after a first install in which every entry of the manifest became a
\* target and every target was downloaded, makes no download attempt.
C16_SecondRunDownloadsNothing ==
    ( /\ earlier # Absent
      /\ Len(earlier.result) = Len(archive[1].content.files)
      /\ \A j \in DOMAIN earlier.result : earlier.result[j] = "downloaded" )
    => \A k \in DOMAIN attempt : attempt[k] = 0

\* the run has left install, by returning or by an exception that is not
\* the fatal one of a zip without a manifest
RunEnded == pc \in {"done", "raised", "callback_raised"}

\* the manifest document of the zip
InputManifest == archive[find_manifest(archive, 1)].content

\* output_dir/manifest.json holds the input's metadata and the entries
\* resolve_one left, in the manifest's order
PersistedResolved ==
    /\ manifest_out # Absent
    /\ \A field \in {"manifestType", "manifestVersion", "name", "version",
                      "author", "overrides", "minecraft"} :
         manifest_out[field] = InputManifest[field]
    /\ Len(manifest_out.files) = Len(InputManifest.files)
    /\ manifest_out.files = resolved
    /\ \A i \in DOMAIN resolved : SameIdentity(resolved[i], InputManifest.files[i])

\* C17: every run that is not fatal ends with the resolved manifest
\* persisted, after every download task has finished: the input's metadata
\* and the post-resolution entries in the manifest's order, unresolved ones
\* and failed downloads included.
C17_ManifestPersisted ==
    RunEnded =>
        /\ PersistedResolved
        /\ \A k \in DOMAIN result : result[k] # "none"

\* the part of C17 that is about the runs that return
C17_ReturnedRunsPersist ==
    pc = "done" =>
        /\ PersistedResolved
        /\ \A k \in DOMAIN result : result[k] # "none"

\* C18: when the zip holds no manifest document, install fails with the
\* manifest-not-found error and, before it fails, extracts no override file,
\* issues no catalog lookup, starts no download and persists no resolved
\* manifest.
C18_NoManifestIsFatal ==
    find_manifest(archive, 1) = 0 =>
        /\ pc \in {"parse", "manifest_not_found"}
        /\ fs = <<>>
        /\ lookups = <<>>
        /\ \A p \in DOMAIN mod_lookups : mod_lookups[p] = 0
        /\ task = <<>>
        /\ attempt = <<>>
        /\ manifest_out = Absent

\* install has failed on a zip that has override files to extract
C18_Witness ==
    /\ pc = "manifest_not_found"
    /\ find_manifest(archive, 1) = 0
    /\ \E i \in DOMAIN archive : is_override(archive[i], << "overrides" >>)

\* the targets whose download succeeded, and those that used up their tries
Succeeded == { k \in DOMAIN result : result[k] = "downloaded" }
Exhausted == { k \in DOMAIN result : result[k] = "failed" }

\* C19: every run that is not fatal ends with a summary of the resolved and
\* unresolved entries and of the downloaded and failed targets, the
\* downloaded count being the number of targets whose download succeeded and
\* the failed count the number that used up their retries.
C19_SummaryCounts ==
    (pc = "done" /\ summary.downloaded # <<>>) =>
        /\ summary.resolved # <<>>
        /\ summary.downloaded[1] = Cardinality(Succeeded)
        /\ Len(file_targets) - summary.downloaded[1] = Cardinality(Exhausted)

\* C20: an exception of the progress callback never aborts the pipeline:
\* the other entries of the stage are still processed, the later stages
\* still run and the resolved manifest is still persisted.
C20_CallbackNeverAborts ==
    /\ pc # "callback_raised"
    /\ (config.progress_callback = "raises" /\ pc = "done") => PersistedResolved

Next ==
    \/ ParseManifest
    \/ ExtractOverrides
    \/ \E idx \in DOMAIN task : StartResolveOne(idx)
    \/ \E idx \in DOMAIN task : WakeResolveOne(idx)
    \/ \E idx \in DOMAIN task : ApiGateAdmits(idx)
    \/ \E idx \in DOMAIN task : FileFound(idx)
    \/ \E idx \in DOMAIN task : FileNotFound(idx)
    \/ \E idx \in DOMAIN task : FileLookupFails(idx)
    \/ ReturnResolved
    \/ BeginDownloadFiles
    \/ \E k \in DOMAIN task : StartFetchClassId(k)
    \/ \E k \in DOMAIN task : WakeFetchClassId(k)
    \/ \E k \in DOMAIN task : ModFound(k)
    \/ \E k \in DOMAIN task : ModLookupFails(k)
    \/ ReturnFileTargets
    \/ \E k \in DOMAIN task : StartDownloadOne(k)
    \/ \E k \in DOMAIN task : WakeDownloadOne(k)
    \/ \E k \in DOMAIN task : DownloadOpens(k)
    \/ \E k \in DOMAIN task : DownloadCompletes(k)
    \/ \E k \in DOMAIN task : DownloadRefused(k)
    \/ \E k \in DOMAIN task : DownloadBreaks(k)
    \/ \E k \in DOMAIN task : SleepEnds(k)
    \/ ReturnDownloaded
    \/ SaveManifest

Spec == Init /\ [][Next]_vars

\* two installs in a row
InitTwice ==
    /\ Init
    /\ archive \in RerunArchives
    /\ config.progress_callback # "raises"

NextTwice == Next \/ InstallAgain

SpecTwice == InitTwice /\ [][NextTwice]_vars


(***************************************************************************)
(* fingerprint.py applied to byte strings: a call is drawn, then made.     *)
(***************************************************************************)
\* "publicclassMyMod{}" and a text of bytes next to the whitespace bytes and
\* of bytes with the high bit set
Texts ==
    { << 112, 117, 98, 108, 105, 99, 99, 108, 97, 115, 115, 77, 121, 77, 111,
         100, 123, 125 >>,
      << 255, 11, 0, 128, 12, 31, 33, 160, 8, 14, 254, 28, 133, 233, 209, 91 >> }

\* blanks put before a text, after each of its bytes, and after it
Paddings ==
    { [lead |-> <<>>, between |-> <<>>, trail |-> <<>>],
      [lead |-> <<>>, between |-> << 32 >>, trail |-> <<>>],
      [lead |-> << 9 >>, between |-> <<>>, trail |-> << 13, 10 >>],
      [lead |-> << 32, 32 >>, between |-> << 9, 10, 13, 32 >>, trail |-> <<>>],
      [lead |-> << 10 >>, between |-> << 13 >>, trail |-> << 9 >>] }

RECURSIVE Interleave(_, _)
Interleave(text, blanks) ==
    IF text = <<>> THEN <<>>
    ELSE << Head(text) >> \o blanks \o Interleave(Tail(text), blanks)

Padded(text, pad) == pad.lead \o Interleave(text, pad.between) \o pad.trail

Inputs ==
    { Padded(SubSeq(t, 1, n), pad) :
        t \in Texts, n \in 0..MaxLen, pad \in Paddings }

\* seeds of _murmur_hash2: 1, 42, 0, 0x80000000, 0xFFFFFFFF
Seeds == { int(1), int(42), int(0), << 0, 0, 0, 128 >>, << 255, 255, 255, 255 >> }

\* everything but `call`
pipeline_vars == << archive, manifest, files, config, summary, earlier, pc,
                    stage_vars, resolve_vars, target_vars, download_vars,
                    manifest_out, faults >>

\* no install is running
NoInstall ==
    /\ archive = <<>>
    /\ config = [concurrency |-> 1, api_concurrency |-> 1, max_retries |-> 1,
                 progress_callback |-> "none"]
    /\ earlier = Absent
    /\ manifest = Absent
    /\ files = <<>>
    /\ summary = [extracted |-> <<>>, resolved |-> <<>>, downloaded |-> <<>>]
    /\ pc = "idle"
    /\ task = <<>>
    /\ semaphore = Semaphore(config.concurrency)
    /\ api_semaphore = Semaphore(config.api_concurrency)
    /\ resolved = <<>>
    /\ finished = 0
    /\ reported = <<>>
    /\ resolved_files = <<>>
    /\ outcome = <<>>
    /\ lookups = <<>>
    /\ downloadable = <<>>
    /\ unique_ids = <<>>
    /\ class_ids = <<>>
    /\ mod_lookups = <<>>
    /\ mod_outcome = <<>>
    /\ file_targets = <<>>
    /\ attempt = <<>>
    /\ waits = <<>>
    /\ result = <<>>
    /\ fs = <<>>
    /\ manifest_out = Absent
    /\ faults = 0

\* a call before it is made, and what it returns
Pending(args) == [fn |-> "pending", args |-> args, returns |-> Absent]
Returned(fn, returns) == [call EXCEPT !.fn = fn, !.returns = returns]
Called(fn) == call # Absent /\ call.fn = fn

InitFingerprint ==
    /\ NoInstall
    /\ call \in { Pending([data |-> d, seed |-> sd]) : d \in Inputs, sd \in Seeds }

Call_murmur_hash2 ==
    /\ Called("pending")
    /\ call' = Returned("_murmur_hash2", _murmur_hash2(call.args.data, call.args.seed))
    /\ UNCHANGED pipeline_vars

Call_strip_whitespace ==
    /\ Called("pending")
    /\ call' = Returned("_strip_whitespace", _strip_whitespace(call.args.data))
    /\ UNCHANGED pipeline_vars

Call_curseforge_fingerprint_bytes ==
    /\ Called("pending")
    /\ call' = Returned("curseforge_fingerprint_bytes",
                        curseforge_fingerprint_bytes(call.args.data))
    /\ UNCHANGED pipeline_vars

NextFingerprint ==
    \/ Call_murmur_hash2
    \/ Call_strip_whitespace
    \/ Call_curseforge_fingerprint_bytes

SpecFingerprint == InitFingerprint /\ [][NextFingerprint]_vars

(***************************************************************************)
(* The fingerprint algorithm as it is specified. An unsigned 32-bit value  *)
(* is held as its two 16-bit halves, and every operation is reduced        *)
(* modulo 2^32.                                                            *)
(***************************************************************************)
U32(hi, lo) == [hi |-> hi, lo |-> lo]

\* the XOR of two values of n bits
RECURSIVE XorBits(_, _, _)
XorBits(a, b, n) ==
    IF n = 0 THEN 0
    ELSE ((a + b) % 2) + 2 * XorBits(a \div 2, b \div 2, n - 1)

UXor(x, y) == U32(XorBits(x.hi, y.hi, 16), XorBits(x.lo, y.lo, 16))

\* x >> n, for 0 < n < 32
UShr(x, n) ==
    IF n >= 16
    THEN U32(0, x.hi \div Pow2(n - 16))
    ELSE U32(x.hi \div Pow2(n), (x.lo \div Pow2(n)) + (x.hi % Pow2(n)) * Pow2(16 - n))

\* the 32-bit product of two 16-bit values
Product(a, b) ==
    LET upper == (a \div 256) * b
        lower == (a % 256) * b
        low24 == (upper % 256) * 256 + lower
    IN  U32((upper \div 256) + (low24 \div 65536), low24 % 65536)

\* x * y (mod 2^32)
UMul(x, y) ==
    LET low == Product(x.lo, y.lo)
    IN  U32((low.hi + Product(x.hi, y.lo).lo + Product(x.lo, y.hi).lo) % 65536, low.lo)

\* the multiplier 0x5BD1E995
Multiplier == U32(5 * 4096 + 11 * 256 + 13 * 16 + 1, 14 * 4096 + 9 * 256 + 9 * 16 + 5)

\* step 1: every tab, line-feed, carriage-return and space byte is discarded
RECURSIVE Stripped(_)
Stripped(bytes) ==
    IF bytes = <<>> THEN <<>>
    ELSE IF Head(bytes) = 9 \/ Head(bytes) = 10 \/ Head(bytes) = 13 \/ Head(bytes) = 32
         THEN Stripped(Tail(bytes))
         ELSE << Head(bytes) >> \o Stripped(Tail(bytes))

\* one 4-byte little-endian word k mixed into h
MixWord(h, bytes) ==
    LET k0 == U32(bytes[3] + 256 * bytes[4], bytes[1] + 256 * bytes[2])
        k1 == UMul(k0, Multiplier)
        k2 == UXor(k1, UShr(k1, 24))
        k3 == UMul(k2, Multiplier)
    IN  UXor(UMul(h, Multiplier), k3)

\* the 0 to 3 trailing bytes mixed into h
MixTrailing(h, bytes) ==
    LET n == Len(bytes)
        h3 == IF n = 3 THEN UXor(h, U32(bytes[3], 0)) ELSE h
        h2 == IF n >= 2 THEN UXor(h3, U32(0, 256 * bytes[2])) ELSE h3
        h1 == IF n >= 1 THEN UXor(h2, U32(0, bytes[1])) ELSE h2
    IN  IF n >= 1 THEN UMul(h1, Multiplier) ELSE h1

RECURSIVE MixAll(_, _)
MixAll(h, bytes) ==
    IF Len(bytes) >= 4
    THEN MixAll(MixWord(h, SubSeq(bytes, 1, 4)), SubSeq(bytes, 5, Len(bytes)))
    ELSE MixTrailing(h, bytes)

Finalize(h) ==
    LET h1 == UXor(h, UShr(h, 13))
        h2 == UMul(h1, Multiplier)
    IN  UXor(h2, UShr(h2, 15))

\* step 2 on the stripped bytes, the seed a 32-bit value
MurmurHash2(bytes, seed) ==
    Finalize(MixAll(UXor(seed, U32(0, Len(bytes))), bytes))

\* fingerprint(bytes) -> uint32
Fingerprint(bytes) == MurmurHash2(Stripped(bytes), U32(0, 1))

\* the int a 32-bit value is, and the 32-bit value of an int below 2^32
IntOf(u) == Norm(<< u.lo % 256, u.lo \div 256, u.hi % 256, u.hi \div 256 >>)
U32Of(x) == U32(Limb(x, 3) + 256 * Limb(x, 4), Limb(x, 1) + 256 * Limb(x, 2))

\* C21: for every byte string, curseforge_fingerprint_bytes returns the value
\* of the specified algorithm: the tab, line-feed, carriage-return and space
\* bytes dropped, then the 32-bit MurmurHash2 with seed 1, m = 0x5BD1E995,
\* r = 24, h starting as seed XOR stripped length, little-endian 4-byte
\* words, the trailing bytes XORed in with one more multiplication only when
\* there is a trailing byte, and the final 13/15 mix.
C21_FingerprintAsSpecified ==
    Called("curseforge_fingerprint_bytes") =>
        call.returns = IntOf(Fingerprint(call.args.data))

\* the fingerprint of an input with blanks, two whole words and a trailing
\* byte has been computed
C21_Witness ==
    /\ Called("curseforge_fingerprint_bytes")
    /\ Len(Stripped(call.args.data)) = 9
    /\ Len(call.args.data) > Len(Stripped(call.args.data))
    /\ call.returns = IntOf(Fingerprint(call.args.data))


\* the inputs that are left equal once the four blank bytes are removed
SameButBlanks(a, b) == Stripped(a) = Stripped(b)

\* C22: the fingerprint is deterministic and whitespace-invariant: two byte
\* strings that are equal once every tab, line-feed, carriage-return and
\* space byte is removed have the same fingerprint, and the stripping
\* removes no other byte value.
C22_WhitespaceInvariant ==
    /\ Called("curseforge_fingerprint_bytes") =>
           \A other \in Inputs :
               SameButBlanks(other, call.args.data)
               => curseforge_fingerprint_bytes(other) = call.returns
    /\ Called("_strip_whitespace") =>
           /\ call.returns = Stripped(call.args.data)
           /\ \A i \in DOMAIN call.args.data :
                  call.args.data[i] \notin {9, 10, 13, 32}
                  => \E j \in DOMAIN call.returns :
                         call.returns[j] = call.args.data[i]

\* an input with blanks of all four kinds and with a vertical tab has been
\* stripped and has been fingerprinted, and the same text without blanks is
\* an input too
C22_Witness ==
    /\ call # Absent
    /\ call.fn \in {"curseforge_fingerprint_bytes", "_strip_whitespace"}
    /\ {9, 10, 13, 32, 11} \subseteq { call.args.data[i] : i \in DOMAIN call.args.data }
    /\ Stripped(call.args.data) \in Inputs
    /\ Stripped(call.args.data) # call.args.data


\* 0 <= x < 2^32
IsUint32(x) ==
    /\ Len(x) <= 4
    /\ \A i \in DOMAIN x : x[i] \in 0..255

\* C23: the fingerprint of every input, the empty one included, is an
\* unsigned 32-bit integer, 0 <= result < 2^32, every multiplication being
\* reduced modulo 2^32.
C23_Unsigned32 ==
    /\ Called("curseforge_fingerprint_bytes") => IsUint32(call.returns)
    /\ Called("_murmur_hash2") => IsUint32(call.returns)

\* the empty input has been fingerprinted
C23_Witness ==
    /\ Called("curseforge_fingerprint_bytes")
    /\ call.args.data = <<>>
    /\ IsUint32(call.returns)
    /\ call.returns = IntOf(Fingerprint(<<>>))


\* C24: for the same non-empty input, the hash computed with a seed (a
\* 32-bit value) other than 1, such as 42, is not the hash computed with
\* seed 1.
C24_SeedMatters ==
    ( /\ Called("_murmur_hash2")
      /\ call.args.data # <<>>
      /\ call.args.seed # int(1) )
    => call.returns # _murmur_hash2(call.args.data, int(1))

\* the hash of a non-empty input with seed 42 has been computed
C24_Witness ==
    /\ Called("_murmur_hash2")
    /\ Len(call.args.data) >= 5
    /\ call.args.seed = int(42)
    /\ call.returns # _murmur_hash2(call.args.data, int(1))


(***************************************************************************)
(* url.py applied to file ids, file names and catalog URLs.                *)
(***************************************************************************)
FileIds == {0, 7, 999, 1000, 1234, 1999, 1234567, 4000000, 5433036, 7417441}

FileNames == {"somefile.jar", "My Mod File.jar", "a%20b+c.jar", "x?y=1&z#f.jar", ""}

DownloadUrls ==
    {None, "", "https://example.com/test.jar",
     "https://mediafilez.forgecdn.net/files/1/234/My Mod.jar"}

InitUrl ==
    /\ NoInstall
    /\ call \in { Pending(AddonFile(i, n, u)) :
                    i \in FileIds, n \in FileNames, u \in DownloadUrls }

Call_build_cdn_url ==
    /\ Called("pending")
    /\ call' = Returned("build_cdn_url", build_cdn_url(call.args.id, call.args.file_name))
    /\ UNCHANGED pipeline_vars

Call_get_download_url ==
    /\ Called("pending")
    /\ call' = Returned("get_download_url", get_download_url(call.args))
    /\ UNCHANGED pipeline_vars

NextUrl ==
    \/ Call_build_cdn_url
    \/ Call_get_download_url

SpecUrl == InitUrl /\ [][NextUrl]_vars

\* url is base/files/{first}/{second}/{name}, the name as it is
IsCdnUrl(url, first, second, name) ==
    url = "https://edge.forgecdn.net/files/" \o ToString(first) \o "/"
              \o ToString(second) \o "/" \o name

\* url is the synthesized URL of (file_id, name): its second number is in
\* 0..999 and first * 1000 + second is the file id
Synthesized(url, file_id, name) ==
    \E second \in 0..999 :
        /\ (file_id - second) % 1000 = 0
        /\ file_id - second >= 0
        /\ IsCdnUrl(url, (file_id - second) \div 1000, second, name)

\* C25: for every non-negative file id and every file name, the synthesized
\* URL is base/files/{fileId div 1000}/{fileId mod 1000}/{fileName}, the file
\* name not encoded: the second number is in 0..999 and first * 1000 + second
\* is the file id.
C25_CdnUrlShape ==
    Called("build_cdn_url") =>
        Synthesized(call.returns, call.args.id, call.args.file_name)

\* the URL of file 1234567 with a file name that has spaces has been built
C25_Witness ==
    /\ Called("build_cdn_url")
    /\ call.args.id = 1234567
    /\ call.args.file_name = "My Mod File.jar"
    /\ call.returns = "https://edge.forgecdn.net/files/1234/567/My Mod File.jar"


\* C26: get_download_url returns the catalog's download URL unchanged
\* whenever it is non-empty, whatever the file id and name, and returns the
\* synthesized CDN URL exactly when the supplied URL is absent or empty.
C26_SuppliedUrlWins ==
    Called("get_download_url") =>
        IF call.args.download_url \notin {None, ""}
        THEN call.returns = call.args.download_url
        ELSE Synthesized(call.returns, call.args.id, call.args.file_name)

\* the URL of a file whose download URL is the empty string has been asked
C26_Witness ==
    /\ Called("get_download_url")
    /\ call.args.download_url = ""
    /\ call.args.id = 5433036
    /\ call.returns = "https://edge.forgecdn.net/files/5433/36/somefile.jar"


(***************************************************************************)
(* _parse_manifest and _extract_overrides on zips of many layouts.         *)
(***************************************************************************)
\* a manifest document without file entries, told apart by its name
NamedManifest(name) == [CurseManifest(<<>>) EXCEPT !.name = name]

\* zip entries: manifests at three depths, override files and directories,
\* and entries that are not under overrides/
ZipPool ==
    { ZipInfo(<< "manifest.json" >>, FALSE, NamedManifest("AtRoot")),
      ZipInfo(<< "pack", "manifest.json" >>, FALSE, NamedManifest("OneDeep")),
      ZipInfo(<< "pack", "data", "manifest.json" >>, FALSE, NamedManifest("TwoDeep")),
      ZipInfo(<< "overrides" >>, TRUE, ""),
      ZipInfo(<< "overrides", "options.txt" >>, FALSE, "options"),
      ZipInfo(<< "overrides", "config" >>, TRUE, ""),
      ZipInfo(<< "overrides", "config", "a.cfg" >>, FALSE, "a"),
      ZipInfo(<< "overrides", "config", "a.cfg" >>, FALSE, "a, again"),
      ZipInfo(<< "overrides-extra", "options.txt" >>, FALSE, "extra"),
      ZipInfo(<< "overrides" >>, FALSE, "a file, not a directory"),
      ZipInfo(<< "options.txt" >>, FALSE, "outside") }

\* the zips of up to n entries of the pool, in any order
Layouts(n) == SeqsUpTo(ZipPool, n)

InitArchive ==
    /\ archive \in Layouts(MaxEntries)
    /\ config \in { c \in Configs : c.progress_callback = "none" }
    /\ before_install

NextArchive ==
    \/ ParseManifest
    \/ ExtractOverrides

SpecArchive == InitArchive /\ [][NextArchive]_vars

\* the entry's path is the prefix, a "/", and something more
UnderPrefix(info, prefix) ==
    /\ Len(info.filename) > Len(prefix)
    /\ \A n \in DOMAIN prefix : info.filename[n] = prefix[n]

\* the entries the extraction has to write
ToExtract == { i \in DOMAIN archive : UnderPrefix(archive[i], << "overrides" >>)
                                      /\ ~archive[i].is_dir }

\* the path after the prefix
AfterPrefix(info, prefix) ==
    Join([n \in 1..(Len(info.filename) - Len(prefix)) |-> info.filename[n + Len(prefix)]])

\* C27: override extraction writes exactly the entries whose path starts
\* with the overrides prefix and "/", that are no directory entries and whose
\* path after the prefix is not empty, each at output_dir joined with the path
\* after the prefix: no entry outside the prefix is written, no directory
\* entry makes a file, and the returned count is the number of files written.
C27_ExtractsOverridesOnly ==
    pc = "resolve" =>
        /\ DOMAIN fs = { AfterPrefix(archive[i], << "overrides" >>) : i \in ToExtract }
        /\ \A path \in DOMAIN fs :
               \E i \in ToExtract :
                   /\ AfterPrefix(archive[i], << "overrides" >>) = path
                   /\ fs[path].url = archive[i].content
                   /\ fs[path].complete
        /\ summary.extracted = << Cardinality(ToExtract) >>

\* a zip with a file under overrides/config/, a directory entry and a file
\* outside overrides/ has been extracted
C27_Witness ==
    /\ pc = "resolve"
    /\ "config/a.cfg" \in DOMAIN fs
    /\ \E i \in DOMAIN archive : archive[i].is_dir
    /\ \E i \in DOMAIN archive : /\ ~archive[i].is_dir
                                   /\ ~is_manifest(archive[i])
                                   /\ archive[i].filename[1] # "overrides"
    /\ summary.extracted = << 1 >>


\* the manifest documents of the zip that lie at its root or one segment deep
ShallowManifests ==
    { i \in DOMAIN archive : /\ ~archive[i].is_dir
                             /\ Len(archive[i].filename) <= 2
                             /\ Last(archive[i].filename) = "manifest.json" }

\* C28: the archive parser accepts a manifest document only at the zip's
\* root or exactly one path segment deep; a zip whose only manifest.json
\* lies two or more segments deep, or that has none, fails with the
\* manifest-not-found error.
C28_ManifestDepth ==
    pc # "parse" =>
        IF ShallowManifests = {}
        THEN pc = "manifest_not_found"
        ELSE /\ pc # "manifest_not_found"
             /\ \E i \in ShallowManifests : manifest.name = archive[i].content.name


(***************************************************************************)
(* The stage gate of the resolution and of the download stage.             *)
(***************************************************************************)
\* installs of manifests long enough for entries to queue behind a full gate
GateArchives == { Modpack(m) : m \in SeqsUpTo(RerunPool, MaxGateFiles) }

InitGate ==
    /\ archive \in GateArchives
    /\ config \in Configs
    /\ before_install

SpecGate == InitGate /\ [][Next]_vars

\* the stages whose tasks are one per entry of the stage's input
EntryStages == {"resolve", "download"}

\* entry t has passed `async with semaphore`, or has been handed the permit
Admitted(t) == task[t] \notin {"new", "waiting"}

\* C29: in the resolution and in the download stage the entries pass the gate
\* in input order: an entry is admitted (and so its network operation
\* starts) only after every entry before it in the input has been admitted
C29_AdmittedInInputOrder ==
    pc \in EntryStages =>
        \A i, j \in DOMAIN task : i < j /\ Admitted(j) => Admitted(i)

\* a later entry has finished while an earlier one, admitted before it, is
\* still on the network: completions are not in input order
C29_Witness ==
    /\ pc \in EntryStages
    /\ \E i, j \in DOMAIN task : /\ i < j
                                 /\ task[j] = "done"
                                 /\ task[i] \in OnNetwork

\* the stages that run their tasks behind `semaphore`
GatedStages == {"resolve", "file_targets", "download"}

\* the tasks of the stage that hold a permit of the stage gate
Holders == TasksIn(HoldsGate)

\* a task that held a permit leaves the gate in this step
Leaves(k) == task[k] \in HoldsGate /\ task'[k] = "done"

\* C30: the stage gate counts permits and is no batch barrier: nobody waits
\* while fewer than `concurrency` tasks hold a permit, because the step in
\* which a holder finishes hands its permit to a waiter, whatever the other
\* holders are doing
C30_CountingGate ==
    /\ [](pc \in GatedStages /\ semaphore.waiters # <<>>
            => Cardinality(Holders) = config.concurrency)
    /\ [][ \A k \in DOMAIN task :
              Leaves(k) /\ semaphore.waiters # <<>>
                  => \E j \in DOMAIN task : /\ task[j] = "waiting"
                                            /\ task'[j] = "woken" ]_vars

\* a waiter has just been handed a permit by a task that finished, while
\* another holder of the same gate of two permits is still on the network
C30_Witness ==
    /\ pc \in GatedStages
    /\ config.concurrency = 2
    /\ \E i, j, k \in DOMAIN task : /\ task[j] = "woken"
                                    /\ task[i] \in OnNetwork
                                    /\ task[k] = "done"


(***************************************************************************)
(* What a stage needs of the stage before it.                              *)
(***************************************************************************)
\* the entries of the parsed manifest that belong to project p
EntriesOf(p) == { idx \in DOMAIN files : files[idx].projectID = p }

\* download_one of target k has started (it may still queue on the gate)
DownloadStarted(k) == pc = "download" /\ task[k] # "new"

\* C31: an entry's project is looked up only after the entry's resolution
\* has completed (and _resolve_files has returned every entry), and an
\* entry's download starts only after the lookup of its project has
\* completed and its class id is known
C31_StagesFollowData ==
    /\ \A p \in ProjectIds :
          mod_lookups[p] > 0 =>
              /\ Len(resolved_files) = Len(files)
              /\ \A idx \in EntriesOf(p) : outcome[idx] # "none"
    /\ \A k \in DOMAIN file_targets :
          DownloadStarted(k) =>
              /\ mod_outcome[file_targets[k].f.projectID] # "none"
              /\ file_targets[k].f.projectID \in DOMAIN class_ids

\* a download is on the network for an entry that was looked up in the
\* resolution stage and whose project was then classified
C31_Witness ==
    \E k \in DOMAIN file_targets :
        /\ DownloadStarted(k)
        /\ task[k] \in OnNetwork
        /\ mod_lookups[file_targets[k].f.projectID] > 0
        /\ \E idx \in EntriesOf(file_targets[k].f.projectID) :
              outcome[idx] = "ok"


(***************************************************************************)
(* The parsed manifest through the stages.                                 *)
(***************************************************************************)
\* _parse_manifest has returned a manifest
Parsed == pc \notin {"parse", "manifest_not_found"}

\* an entry whose lookup filled in a file name and a URL
FilledIn(i) == outcome[i] = "ok" /\ resolved[i] # Unset

\* C32: no stage changes the manifest that was parsed: at every point after
\* the parse, and so after install, its metadata, its entry list and every
\* entry's fileName and url are those of the archive's document; what the
\* lookups found is in the resolved list only
C32_ParsedManifestUntouched ==
    Parsed =>
        /\ files = InputManifest.files
        /\ manifest = [InputManifest EXCEPT !.files = <<>>]
        /\ \A i \in DOMAIN files :
              /\ files[i].fileName = InputManifest.files[i].fileName
              /\ files[i].url = InputManifest.files[i].url

\* install has returned, and the resolved copy holds a file name and a URL
\* that the parsed entry lacks
C32_Witness ==
    /\ pc = "done"
    /\ \E i \in DOMAIN files : /\ FilledIn(i)
                               /\ ~Truthy(files[i].fileName)
                               /\ Truthy(resolved[i].fileName)
                               /\ Truthy(manifest_out.files[i].url)


(***************************************************************************)
(* The download tasks and the destination paths.                           *)
(***************************************************************************)
\* task k is between admission and the end of its download_one
Working(k) == pc = "download" /\ task[k] \in {"connecting", "streaming", "sleeping"}

\* C33: at most one download task at a time writes to or deletes a given
\* destination path: a file is held open by at most one task, holds bytes
\* of one download only, and the tasks that are at work on a path (they
\* found it absent and will open, truncate or unlink it) are at most one
C33_OneTaskPerDestination ==
    /\ \A path \in DOMAIN fs :
          /\ Cardinality(fs[path].writers) <= 1
          /\ ~fs[path].mixed
    /\ \A k, j \in DOMAIN file_targets :
          Working(k) /\ Working(j) /\ file_targets[k].target = file_targets[j].target
              => k = j


\* the download stage is over
DownloadsOver == pc \in {"save", "done"} /\ file_targets # <<>>

\* target k was absent when its task was admitted: the task did not skip it
FoundAbsent(k) == result[k] \notin {"none", "skipped"}

\* C34: whatever max_retries is, a target whose destination was absent when
\* its task was admitted ends the download stage with its file downloaded
\* or with its failure logged
C34_DownloadedOrFailureLogged ==
    DownloadsOver =>
        \A k \in DOMAIN result :
            FoundAbsent(k) =>
                \/ /\ result[k] = "downloaded"
                   /\ file_targets[k].target \in DOMAIN fs
                \/ result[k] = "failed"


(***************************************************************************)
(* Where the files are written.                                            *)
(***************************************************************************)
\* the subdirectories the download stage writes into
Buckets == {"mods", "resourcepacks", "shaderpacks"}

\* the paths, as segments below output_dir, that a run can write: what is
\* after the first segment of an archive entry, and bucket and file name of
\* a download target
WritablePaths ==
    { [n \in 1..(Len(archive[i].filename) - 1) |-> archive[i].filename[n + 1]] :
         i \in { e \in DOMAIN archive : Len(archive[e].filename) > 1 } }
    \cup { << b, file_targets[k].f.fileName >> : b \in Buckets, k \in DOMAIN file_targets }

\* walking the segments from output_dir never leaves it and ends below it:
\* ".." goes one up, an empty first segment is a path from the root
RECURSIVE StaysBelow(_, _, _)
StaysBelow(segments, i, depth) ==
    IF i > Len(segments) THEN depth >= 1
    ELSE IF segments[i] = "" THEN i > 1 /\ StaysBelow(segments, i + 1, depth)
    ELSE IF segments[i] = ".." THEN depth >= 1 /\ StaysBelow(segments, i + 1, depth - 1)
    ELSE StaysBelow(segments, i + 1, depth + 1)

\* C35: every file that override extraction or the download stage has
\* written is at a path inside the output directory tree
C35_WritesStayInside ==
    \A path \in DOMAIN fs :
        \E segments \in WritablePaths : /\ Join(segments) = path
                                        /\ StaysBelow(segments, 1, 0)


(***************************************************************************)
(* Termination.  The event loop runs every task that is ready, and every   *)
(* request is answered or fails: a step that can be taken is taken.        *)
(***************************************************************************)
LiveArchives == { Modpack(m) : m \in SeqsUpTo(RerunPool, MaxLiveFiles) }

InitLive ==
    /\ archive \in LiveArchives
    /\ config \in Configs
    /\ before_install

SpecLive == InitLive /\ [][Next]_vars /\ WF_vars(Next)

\* install has returned or raised
Terminated == pc \in {"done", "raised", "callback_raised", "manifest_not_found"}

\* task k of the current stage is queued on the stage gate or the client gate
Queued(k) == k \in DOMAIN task /\ task[k] \in {"waiting", "api_waiting"}

\* C36: when every lookup and every download attempt returns or fails,
\* install terminates, and no task stays queued on a gate for ever
C36_Terminates ==
    /\ <>Terminated
    /\ \A k \in 1..(MaxLiveFiles + 1) : [](Queued(k) => <>(~Queued(k) \/ Terminated))

\* install has returned from a run in which the gate had one permit for two
\* download tasks, one of which failed on its last attempt
C36_Witness ==
    /\ pc = "done"
    /\ config.concurrency = 1
    /\ Len(file_targets) >= 2
    /\ \E k \in DOMAIN result : result[k] = "failed"


(***************************************************************************)
(* The progress reports.                                                   *)
(***************************************************************************)
\* the calls of the callback made by the tasks of one stage, in order
CallsOf(message) == SelectSeq(reported, LAMBDA c : c.message = message)

\* the calls count 1, 2, ... with the same total
CountsUp(calls, total) ==
    \A i \in DOMAIN calls : calls[i].current = i /\ calls[i].total = total

\* _resolve_files has returned or raised
ResolveOver == pc \notin {"parse", "manifest_not_found", "extract_overrides", "resolve"}

\* _download_files has returned or raised, or install ended before it
DownloadOver == pc \in {"save", "done", "raised", "callback_raised"}

\* each stage has called the callback with 1, 2, ... and its total, and once
\* the stage is over it has made one call for each of its entries
ReportedOncePerEntry ==
    /\ CountsUp(CallsOf("Resolving file info"), Len(files))
    /\ ResolveOver => Len(CallsOf("Resolving file info")) = Len(files)
    /\ CountsUp(CallsOf("Downloading"), Len(file_targets))
    /\ DownloadOver => Len(CallsOf("Downloading")) = Len(file_targets)

\* C37: in the resolution and in the download stage the progress callback
\* is called once per entry of the stage, with the stage's total and with
\* current = 1, 2, ..., total in this order, so that the last call of a
\* stage reports current = total
C37_ReportedOncePerEntry ==
    config.progress_callback # "none" => ReportedOncePerEntry

\* the same for a callback that returns from every call
C37_ReturningCallbackReported ==
    config.progress_callback = "returns" => ReportedOncePerEntry

=============================================================================
